---- MODULE Spec2Model ----
(***************************************************************************)
(* State-machine model of the IoT module of the Smart Attendance System:   *)
(*   - DataProcessor  (src/iot_module/data_processor.py): the bounded      *)
(*     ingestion queue, its consumer threads and the attendance cooldown;  *)
(*   - DeviceManager  (src/iot_module/device-manager.py): the device       *)
(*     registry, the heartbeat monitor and the broadcast fan-out.          *)
(* Time is a discrete clock `now`; the code's durations are scaled to      *)
(* ticks.  A `with lock:` block that performs no blocking call is one      *)
(* atomic step taken while the lock is free; blocks that the claims speak  *)
(* about (the consumer's pop, the point-to-point commands) hold the lock   *)
(* across steps.                                                           *)
(***************************************************************************)
EXTENDS Integers, Sequences, FiniteSets, TLC

(***************************************************************************)
(* Bounds of the model.                                                    *)
(***************************************************************************)
\* Last value of the clock in the specifications of the registry.
MaxTime == 3
\* Last value of the clock in the specifications of the pipeline.
MaxStamp == 2
\* Number of items the producers may get accepted in one behaviour.
MaxItems == 3
\* DataProcessor.max_queue_size (100 in the code), scaled down.
max_queue_size == 2
\* DataProcessor.min_attendance_interval (60 s in the code), in ticks.
min_attendance_interval == 2
\* DeviceManager.heartbeat_timeout (300 s in the code), in ticks.
heartbeat_timeout == 1
\* Longest subscription and topic, in parts, the matcher is applied to.
MaxLevels == 3
\* Successful connections that are told apart.
MaxSessions == 2
\* Failed reconnect attempts one loop can make.
MaxAttempts == 8
\* self.ping_interval (30 s), in ticks.
ping_interval == 2
\* self.reconnect_delay and self.reconnect_max_delay, in seconds.
reconnect_delay == 5
reconnect_max_delay == 60

Subjects == {"u1", "u2"}
NoUser == "none"
\* Consumer threads (threading.Thread objects) that can be alive at once:
\* the one start_processing made last and one that outlived a stop.
Threads == {1, 2}
Devices == {"cam1", "cam2", "cam3"}
Addresses == {"10.0.0.5", "10.0.0.6"}

VARIABLES
    now,                  \* datetime.utcnow(), in ticks
    \* ---- DataProcessor ----
    processing_queue,     \* self.processing_queue
    queue_lock,           \* self.queue_lock: 0 when free, else the holding thread
    is_processing,        \* self.is_processing
    last_attendance_time, \* self.last_attendance_time: subject -> time, -1 when absent
    thr,                  \* consumer threads running _processing_loop: pc and item held
    processing_thread,    \* self.processing_thread: the thread started last, 0 before
    joining,              \* the thread a stop_processing call is joining, 0 when none
    next_id,              \* acceptance number the next accepted item gets (ghost)
    taken,                \* acceptance numbers in the order the consumers popped them (ghost)
    decisions,            \* attendance verdicts in the order they were made (ghost)
    outbox,               \* requests issued to the backend, per endpoint (ghost)
    last_enqueue,         \* outcome of the latest process_image / process_data call (ghost)
    \* ---- DeviceManager ----
    devices,              \* self.devices: device_id -> record, NoDev when absent
    active_devices,       \* self.active_devices
    lock,                 \* self.lock: "free" or the operation holding it
    db_status,            \* Device documents of the durable store: status, "none" when no row
    sweep,                \* the _monitor_heartbeats thread
    bc,                   \* a broadcast_message call in progress
    cmd,                  \* a configure_device / restart_device call in progress
    last_call,            \* latest registry call and what it returned (ghost)
    \* ---- MQTTClient ----
    is_connected,         \* self.is_connected
    transport,            \* the paho client's connection: closed, connecting or open
    loop_running,         \* the paho network thread runs (loop_start .. loop_stop)
    stopped,              \* a disconnect() has returned and no connect() followed (ghost)
    reconnect_loop,       \* the _reconnect_loop threads: position, delay, failures
    heartbeat_threads,    \* the _heartbeat_loop threads: "none", "test" or "sleep"
    last_ping,            \* self.last_ping
    last_beat,            \* time of the latest connack or heartbeat message (ghost)
    restart_thread,       \* the _handle_restart thread: "none", "sleep1" or "sleep2"
    sessions,             \* successful connections so far, counted up to MaxSessions (ghost)
    message_callbacks,    \* self.message_callbacks: (topic, callback) pairs in dict order
    effects,              \* what the latest callback or call did on the transport (ghost)
    mq_call,              \* latest subscribe / unsubscribe call and its result (ghost)
    match                 \* one evaluation of _topic_matches: arguments and result

pvars == <<processing_queue, queue_lock, is_processing, last_attendance_time, thr,
           processing_thread, joining, next_id, taken, decisions, outbox, last_enqueue>>
rvars == <<devices, active_devices, lock, db_status, sweep, bc, cmd, last_call>>
tvars == <<message_callbacks, mq_call>>
hvars == <<heartbeat_threads, last_ping, last_beat>>
cvars == <<is_connected, transport, loop_running, stopped, reconnect_loop, sessions,
           tvars, hvars, effects, restart_thread>>
mvars == <<cvars, match>>
vars == <<now, pvars, mvars, rvars, mvars>>

NoItem == [id |-> 0, type |-> "none", arg |-> "none", ts |-> 0]
NoEnqueue == [ret |-> "none", busy |-> FALSE]
NoDev == [ip_address |-> "none", status |-> "unknown", last_heartbeat |-> 0]
NoCall == [op |-> "none", dev |-> "none", ret |-> FALSE, was |-> "unknown"]
NoCmd == [op |-> "none", dev |-> "none"]
IdleSweep == [pc |-> "sleep", current_time |-> 0, to_mark |-> {}]
IdleBroadcast == [pc |-> "idle", todo |-> {}, cur |-> "none", size |-> 0,
                  sent |-> 0, failed |-> 0, skipped |-> 0]

\* What a producer can hand in: process_image(image) and
\* process_data(data, data_type).  arg abstracts the payload: for an image
\* whether _process_image_data gets a face out of it ("face": a detector is
\* loaded, the image decodes and detectMultiScale finds a region; "noface":
\* any of the early returns), for attendance data.get('user_id'), for a
\* sensor reading metadata.get('report_to_backend').
Inputs ==
    ({"image"} \X {"face", "noface"})
    \cup ({"attendance"} \X (Subjects \cup {NoUser}))
    \cup ({"sensor"} \X {"report", "local"})
    \cup ({"other"} \X {"x"})

\* Threads of each kind that can be alive at once.
LoopIds == {1, 2}
HbIds == {1, 2}

\* Delays are held in units of 1 / DelayScale seconds, which keeps the
\* repeated `delay * 1.5` exact for as many failures as a loop can have.
DelayScale == 2 ^ MaxAttempts
NoLoop == [pc |-> "none", delay |-> 0, failed |-> 0]

NoMqCall == [op |-> "none", topic |-> <<>>, callback |-> "none", ret |-> FALSE]
NoMatch == [subscription |-> <<>>, topic |-> <<>>, result |-> "none"]

\* MQTTClient.__init__
InitClient ==
    /\ is_connected = FALSE
    /\ transport = "closed"
    /\ loop_running = FALSE
    /\ stopped = FALSE
    /\ reconnect_loop = [l \in LoopIds |-> NoLoop]
    /\ heartbeat_threads = [h \in HbIds |-> "none"]
    /\ last_ping = -ping_interval
    /\ last_beat = 0
    /\ restart_thread = "none"
    /\ sessions = 0
    /\ message_callbacks = <<>>
    /\ effects = <<>>
    /\ mq_call = NoMqCall

InitRest ==
    /\ now = 0
    /\ processing_queue = <<>>
    /\ queue_lock = 0
    /\ is_processing = FALSE
    /\ last_attendance_time = [u \in Subjects |-> -1]
    /\ thr = [t \in Threads |-> [pc |-> "none", item |-> NoItem]]
    /\ processing_thread = 0
    /\ joining = 0
    /\ next_id = 1
    /\ taken = <<>>
    /\ decisions = <<>>
    /\ outbox = [face |-> 0, pending |-> 0, attendance |-> 0, sensor |-> 0,
                 sensor_pending |-> 0, failed |-> [u \in Subjects |-> -1]]
    /\ last_enqueue = NoEnqueue
    /\ devices = [d \in Devices |-> NoDev]
    /\ active_devices = {}
    /\ lock = "free"
    /\ db_status = [d \in Devices |-> "none"]
    /\ sweep = IdleSweep
    /\ bc = IdleBroadcast
    /\ cmd = NoCmd
    /\ last_call = NoCall

Init == InitRest /\ InitClient /\ match = NoMatch

\* The clock advances, up to the horizon of the specification.
Tick(horizon) ==
    /\ now < horizon
    /\ now' = now + 1
    /\ UNCHANGED <<pvars, rvars, mvars>>

(***************************************************************************)
(* DataProcessor: producers                                                *)
(***************************************************************************)
Busy == \E t \in Threads : thr[t].pc \in {"process", "att_update", "att_send"}

\* Mutant: the test lets one item too many in.
QueueFull_OffByOne(q) == Len(q) > max_queue_size

\* The queue-full test of process_image / process_data.
QueueFull(q) == Len(q) >= max_queue_size

\* process_image and process_data: under queue_lock, drop on a full queue,
\* else append {type, data, metadata, timestamp}.
Enqueue(type, arg) ==
    /\ queue_lock = 0
    /\ IF QueueFull(processing_queue)
          THEN /\ last_enqueue' = [ret |-> "false", busy |-> Busy]
               /\ UNCHANGED <<processing_queue, next_id>>
          ELSE /\ next_id <= MaxItems
               /\ processing_queue' = Append(processing_queue,
                      [id |-> next_id, type |-> type, arg |-> arg, ts |-> now])
               /\ next_id' = next_id + 1
               /\ last_enqueue' = [ret |-> "true", busy |-> Busy]
    /\ UNCHANGED <<now, queue_lock, is_processing,
                   last_attendance_time, thr, taken, decisions, outbox, processing_thread,
                   joining, rvars, mvars>>

process_image(S) == \E in \in S : in[1] = "image" /\ Enqueue("image", in[2])

process_data(S) == \E in \in S : in[1] # "image" /\ Enqueue(in[1], in[2])

(***************************************************************************)
(* DataProcessor: start / stop                                             *)
(***************************************************************************)
\* start_processing and stop_processing are called by one controller at a
\* time, as DeviceClient.start / stop / _handle_restart_command do.
start_processing ==
    /\ joining = 0
    /\ ~is_processing
    /\ \E t \in Threads :
          /\ thr[t].pc = "none"
          /\ thr' = [thr EXCEPT ![t] = [pc |-> "loop", item |-> NoItem]]
          /\ processing_thread' = t
    /\ is_processing' = TRUE
    /\ UNCHANGED <<now, processing_queue, queue_lock, last_attendance_time, joining,
                   next_id, taken, decisions, outbox, last_enqueue, rvars, mvars>>

\* stop_processing up to the join: the flag goes down and, if the thread is
\* alive, the caller waits for it.
stop_processing ==
    /\ joining = 0
    /\ is_processing
    /\ is_processing' = FALSE
    /\ joining' = IF thr[processing_thread].pc = "none" THEN 0 ELSE processing_thread
    /\ UNCHANGED <<now, processing_queue, queue_lock, last_attendance_time, thr,
                   processing_thread, next_id, taken, decisions, outbox, last_enqueue, rvars, mvars>>

\* join(timeout=3.0) returns because the thread has ended.
JoinReturns ==
    /\ joining # 0
    /\ thr[joining].pc = "none"
    /\ joining' = 0
    /\ UNCHANGED <<now, processing_queue, queue_lock, is_processing, last_attendance_time,
                   thr, processing_thread, next_id, taken, decisions, outbox, last_enqueue,
                   rvars, mvars>>

\* join(timeout=3.0) gives up: the thread is inside the POST of
\* _send_attendance_data, whose own timeout is 10 s.
JoinTimesOut ==
    /\ joining # 0
    /\ thr[joining].pc = "att_send"
    /\ joining' = 0
    /\ UNCHANGED <<now, processing_queue, queue_lock, is_processing, last_attendance_time,
                   thr, processing_thread, next_id, taken, decisions, outbox, last_enqueue,
                   rvars, mvars>>

(***************************************************************************)
(* DataProcessor: the consumer thread, _processing_loop                    *)
(***************************************************************************)
SetPc(t, pc) == [thr EXCEPT ![t].pc = pc]

\* `while self.is_processing:` -- the thread ends when the flag is down.
LoopTest(t) ==
    /\ thr[t].pc = "loop"
    /\ thr' = IF is_processing THEN SetPc(t, "take")
                               ELSE [thr EXCEPT ![t] = [pc |-> "none", item |-> NoItem]]
    /\ UNCHANGED <<now, processing_queue, queue_lock, is_processing,
                   last_attendance_time, next_id, taken, decisions, outbox, last_enqueue, processing_thread,
                   joining, rvars, mvars>>

\* Mutant: pop() takes the newest item.
PopIndex_Last(q) == Len(q)

\* Index of the item `self.processing_queue.pop(0)` removes.
PopIndex(q) == 1

RemoveAt(q, i) == [k \in 1..(Len(q) - 1) |-> IF k < i THEN q[k] ELSE q[k + 1]]

\* Mutant: the item is processed inside the `with` block.
LockAfterPop_Held(t) == t

\* The holder of queue_lock when the `with` block of the loop is left.
LockAfterPop(t) == 0

\* The `with self.queue_lock:` block of the loop: pop the oldest item if
\* there is one; the lock is released on leaving the block, before the item
\* is processed.  On an empty queue the thread sleeps 0.1 s and tests the
\* flag again.
Pop(t) ==
    /\ thr[t].pc = "take"
    /\ queue_lock = 0
    /\ IF processing_queue # <<>>
          THEN LET i == PopIndex(processing_queue) IN
               /\ thr' = [thr EXCEPT ![t] = [pc |-> "process", item |-> processing_queue[i]]]
               /\ processing_queue' = RemoveAt(processing_queue, i)
               /\ taken' = Append(taken, processing_queue[i].id)
          ELSE /\ thr' = SetPc(t, "loop")
               /\ UNCHANGED <<processing_queue, taken>>
    /\ queue_lock' = LockAfterPop(t)
    /\ UNCHANGED <<now, is_processing, last_attendance_time,
                   next_id, decisions, outbox, last_enqueue, processing_thread,
                   joining, rvars, mvars>>

\* _process_item returns: the item is dropped and the loop test comes next.
Finish(t) == [thr EXCEPT ![t] = [pc |-> "loop", item |-> NoItem]]

\* The duplicate test of _process_attendance_data: the subject has an entry
\* and the item's timestamp is less than the interval after it.
IsDuplicate(last, ts) == last # -1 /\ ts - last < min_attendance_interval

\* Mutant: the face is turned into an Attendance item of the queue.
QueueAfterFace_Enqueued(q, item) ==
    Append(q, [id |-> 0, type |-> "attendance", arg |-> "u1", ts |-> item.ts])

\* Queue after _process_image_data handled an image in which a face was
\* found: the face goes to the backend, nothing is appended.
QueueAfterFace(q, item) == q

\* Mutant: an exception or an unknown type ends the consumer thread.
AfterCaught_Exits(t) == [thr EXCEPT ![t] = [pc |-> "none", item |-> NoItem]]

\* The thread after `except Exception as e: logger.error(...)` of a
\* _process_* method, or after the "Unknown item type" warning of
\* _process_item: the method returns and the loop test comes next.
AfterCaught(t) == Finish(t)

\* _process_image_data: return when no detector is loaded or no face is
\* found, else _send_face_for_identification for the first face only, which
\* posts to the backend on a thread of its own.  An image that cannot be
\* decoded ("bad") raises inside the try block; the exception is logged.
ProcessImage(t) ==
    LET item == thr[t].item IN
    /\ item.type = "image"
    /\ IF item.arg = "face"
          THEN /\ outbox' = [outbox EXCEPT !.face = @ + 1, !.pending = @ + 1]
               /\ processing_queue' = QueueAfterFace(processing_queue, item)
          ELSE UNCHANGED <<outbox, processing_queue>>
    /\ thr' = IF item.arg = "bad" THEN AfterCaught(t) ELSE Finish(t)
    /\ UNCHANGED <<last_attendance_time, decisions>>

\* _process_attendance_data up to the duplicate test.
ProcessAttendance(t) ==
    LET item == thr[t].item IN
    /\ item.type = "attendance"
    /\ IF item.arg = NoUser
          THEN /\ thr' = Finish(t)
               /\ UNCHANGED decisions
          ELSE IF IsDuplicate(last_attendance_time[item.arg], item.ts)
          THEN /\ thr' = Finish(t)
               /\ decisions' = Append(decisions,
                      [user |-> item.arg, ts |-> item.ts, forward |-> FALSE])
          ELSE /\ thr' = SetPc(t, "att_update")
               /\ decisions' = Append(decisions,
                      [user |-> item.arg, ts |-> item.ts, forward |-> TRUE])
    /\ UNCHANGED <<last_attendance_time, outbox, processing_queue>>

\* _process_sensor_data: report only when metadata asks for it, on a thread
\* of its own.
\* Mutant: every reading is reported.
ReportsToBackend_Always(arg) == TRUE

\* `metadata.get('report_to_backend', False)`
ReportsToBackend(arg) == arg = "report"

ProcessSensor(t) ==
    LET item == thr[t].item IN
    /\ item.type = "sensor"
    /\ outbox' = IF ReportsToBackend(item.arg)
                     THEN [outbox EXCEPT !.sensor = @ + 1, !.sensor_pending = @ + 1]
                     ELSE outbox
    /\ thr' = Finish(t)
    /\ UNCHANGED <<last_attendance_time, decisions, processing_queue>>

\* _process_item on an unknown type: a warning, nothing else.
ProcessOther(t) ==
    /\ thr[t].item.type = "other"
    /\ thr' = AfterCaught(t)
    /\ UNCHANGED <<last_attendance_time, decisions, outbox, processing_queue>>

\* _process_item: dispatch on the item's type.
Process(t) ==
    /\ thr[t].pc = "process"
    /\ \/ ProcessImage(t)
       \/ ProcessAttendance(t)
       \/ ProcessSensor(t)
       \/ ProcessOther(t)
    /\ UNCHANGED <<now, queue_lock, is_processing, next_id, taken,
                   last_enqueue, processing_thread,
                   joining, rvars, mvars>>

\* `self.last_attendance_time[user_id] = timestamp`
AttUpdate(t) ==
    /\ thr[t].pc = "att_update"
    /\ last_attendance_time' =
          [last_attendance_time EXCEPT ![thr[t].item.arg] = thr[t].item.ts]
    /\ thr' = SetPc(t, "att_send")
    /\ UNCHANGED <<now, processing_queue, queue_lock, is_processing,
                   next_id, taken, decisions, outbox, last_enqueue, processing_thread,
                   joining, rvars, mvars>>

\* Outcomes of requests.post: status 201, another status, an exception
\* (a timeout among them).
Replies == {"201", "400", "raise"}

\* Mutant: an item whose report failed is put back on the queue.
QueueAfterReply_Requeued(q, item, reply) ==
    IF reply # "201" /\ Len(q) < max_queue_size THEN Append(q, item) ELSE q

\* The queue after _send_attendance_data returned: the reply is logged and
\* nothing is appended.
QueueAfterReply(q, item, reply) == q

\* Mutant: the cooldown entry is removed when the report fails.
StampAfterReply_RolledBack(last, item, reply) ==
    IF reply # "201" THEN [last EXCEPT ![item.arg] = -1] ELSE last

\* last_attendance_time after _send_attendance_data returned: the entry set
\* before the call stays whatever the reply was.
StampAfterReply(last, item, reply) == last

\* _send_attendance_data: one POST, whose outcome is only logged.
\* outbox.failed keeps, per subject, the timestamp of the report whose POST
\* failed last (-1 once a report of the subject was accepted).
AttSend(t, reply) ==
    LET item == thr[t].item IN
    /\ thr[t].pc = "att_send"
    /\ outbox' = [outbox EXCEPT !.attendance = @ + 1,
                                !.failed[item.arg] = IF reply = "201" THEN -1 ELSE item.ts]
    /\ processing_queue' = QueueAfterReply(processing_queue, item, reply)
    /\ last_attendance_time' = StampAfterReply(last_attendance_time, item, reply)
    /\ thr' = Finish(t)
    /\ UNCHANGED <<now, queue_lock, is_processing,
                   next_id, taken, decisions, last_enqueue, processing_thread,
                   joining, rvars, mvars>>

\* The POST of _send_attendance_data is refused, times out or raises.
AttSendFails(t) == \E reply \in Replies \ {"201"} : AttSend(t, reply)

\* _send_attendance_request, on the thread _send_face_for_identification
\* started: the POST returns (201, another status, or an exception) and
\* the reply is logged.
send_attendance_request(status) ==
    /\ outbox.pending > 0
    /\ outbox' = [outbox EXCEPT !.pending = @ - 1]
    /\ UNCHANGED <<now, processing_queue, queue_lock, is_processing,
                   last_attendance_time, thr, next_id, taken, decisions, last_enqueue, processing_thread,
                   joining, rvars, mvars>>

\* _send_sensor_data, on the thread _process_sensor_data started: the
\* POST returns and the reply is logged.
send_sensor_data(status) ==
    /\ outbox.sensor_pending > 0
    /\ outbox' = [outbox EXCEPT !.sensor_pending = @ - 1]
    /\ UNCHANGED <<now, processing_queue, queue_lock, is_processing,
                   last_attendance_time, thr, next_id, taken, decisions, last_enqueue, processing_thread,
                   joining, rvars, mvars>>

\* One step of the consumer thread, the backend accepting its reports.
Consumer(t) ==
    \/ LoopTest(t)
    \/ Pop(t)
    \/ Process(t)
    \/ AttUpdate(t)
    \/ AttSend(t, "201")

(***************************************************************************)
(* Specifications of the pipeline.  Each draws the producers' inputs from  *)
(* its own set, so that the part of the pipeline its claims are about is   *)
(* explored in full.                                                       *)
(***************************************************************************)
QueueInputs == {<<"image", "face">>, <<"attendance", "u1">>, <<"attendance", NoUser>>,
                <<"sensor", "report">>, <<"other", "x">>}

\* The queue, its lock and the consumers.
QueueNext ==
    \/ process_image(QueueInputs)
    \/ process_data(QueueInputs)
    \/ start_processing
    \/ stop_processing
    \/ JoinReturns
    \/ JoinTimesOut
    \/ \E t \in Threads : Consumer(t)
    \/ \E r \in Replies : send_attendance_request(r)

SpecQueue == Init /\ [][QueueNext]_vars

SensorInputs == {<<"sensor", "report">>, <<"sensor", "local">>, <<"attendance", "u1">>}

\* Sensor readings with and without the reporting flag.
SensorNext ==
    \/ process_data(SensorInputs)
    \/ start_processing
    \/ stop_processing
    \/ JoinReturns
    \/ JoinTimesOut
    \/ \E t \in Threads : Consumer(t)

SpecSensor == Init /\ [][SensorNext]_vars

AttendanceInputs == {"attendance"} \X Subjects

\* Attendance items over time.
DedupNext ==
    \/ Tick(MaxStamp)
    \/ process_data(AttendanceInputs)
    \/ start_processing
    \/ stop_processing
    \/ JoinReturns
    \/ JoinTimesOut
    \/ \E t \in Threads : Consumer(t)

SpecDedup == Init /\ [][DedupNext]_vars

ImageInputs == {<<"image", "face">>, <<"image", "noface">>, <<"attendance", "u1">>}

\* Images next to attendance items.
ImageNext ==
    \/ Tick(MaxStamp)
    \/ process_image(ImageInputs)
    \/ process_data(ImageInputs)
    \/ start_processing
    \/ stop_processing
    \/ JoinReturns
    \/ JoinTimesOut
    \/ \E t \in Threads : Consumer(t)
    \/ \E r \in Replies : send_attendance_request(r)

SpecImage == Init /\ [][ImageNext]_vars

ForwardInputs == {<<"image", "face">>, <<"image", "bad">>, <<"attendance", "u1">>,
                  <<"sensor", "report">>, <<"other", "x">>}

\* One consumer and a backend that may refuse or fail every request.
ForwardNext ==
    \/ process_image(ForwardInputs)
    \/ process_data(ForwardInputs)
    \/ start_processing
    \/ \E t \in Threads : Consumer(t)
    \/ \E t \in Threads : AttSendFails(t)
    \/ \E r \in Replies : send_attendance_request(r)
    \/ \E r \in Replies : send_sensor_data(r)

SpecForward == Init /\ [][ForwardNext]_vars

\* Attendance items over time, one consumer, reports that may fail.
CooldownNext ==
    \/ Tick(MaxStamp)
    \/ process_data(AttendanceInputs)
    \/ start_processing
    \/ \E t \in Threads : Consumer(t)
    \/ \E t \in Threads : AttSendFails(t)

SpecCooldown == Init /\ [][CooldownNext]_vars

\* The consumer threads are scheduled again and again: a thread that can
\* take a step of _processing_loop eventually takes one.
SpecConsume ==
    SpecForward /\ \A t \in Threads : WF_vars(Consumer(t) \/ AttSendFails(t))

(***************************************************************************)
(* DeviceManager: registry operations.  Each is one `with self.lock:`      *)
(* block without a blocking call in it, taken while the lock is free.      *)
(***************************************************************************)
\* get_device_status
get_device_status(d) == devices[d].status

\* get_active_devices
get_active_devices == active_devices

Known(d) == devices[d] # NoDev

\* Mutant: a device already registered keeps its record.
NewRecord_KeepOld(old, a) ==
    IF old.status # "unknown" THEN old
    ELSE [ip_address |-> a, status |-> "active", last_heartbeat |-> now]

\* The record register_device stores, whatever was there before.  Its
\* connection_info (connected_at, protocol) is read nowhere and is left out.
NewRecord(old, a) ==
    [ip_address |-> a, status |-> "active", last_heartbeat |-> now]

\* Mutant: the active set is not touched.
ActiveAfterAdd_Forgotten(d) == active_devices

\* The active set after register_device / update_device_heartbeat.
ActiveAfterAdd(d) == active_devices \cup {d}

register_device(d, a) ==
    /\ lock = "free"
    /\ devices' = [devices EXCEPT ![d] = NewRecord(devices[d], a)]
    /\ active_devices' = ActiveAfterAdd(d)
    /\ last_call' = [op |-> "register", dev |-> d, ret |-> TRUE, was |-> devices[d].status]
    /\ UNCHANGED <<now, pvars, mvars, lock, db_status, sweep, bc, cmd>>

\* Mutant: the record goes, the membership stays.
ActiveAfterDiscard_Kept(d) == active_devices

\* The active set after `self.active_devices.discard(device_id)`.
ActiveAfterDiscard(d) == active_devices \ {d}

unregister_device(d) ==
    /\ lock = "free"
    /\ IF Known(d)
          THEN /\ devices' = [devices EXCEPT ![d] = NoDev]
               /\ active_devices' = ActiveAfterDiscard(d)
          ELSE UNCHANGED <<devices, active_devices>>
    /\ last_call' = [op |-> "unregister", dev |-> d, ret |-> Known(d), was |-> devices[d].status]
    /\ UNCHANGED <<now, pvars, mvars, lock, db_status, sweep, bc, cmd>>

\* The Device document after `device.status = s; device.save()`: nothing is
\* written when the store raises or holds no document for the device.
Upsert(d, s, ok) ==
    IF ok /\ db_status[d] # "none" THEN [db_status EXCEPT ![d] = s] ELSE db_status

\* Mutant: only the timestamp is refreshed.
Beat_TimestampOnly(rec) == [rec EXCEPT !.last_heartbeat = now]

\* The record after a heartbeat.
Beat(rec) == [rec EXCEPT !.last_heartbeat = now, !.status = "active"]

update_device_heartbeat(d, ok) ==
    /\ lock = "free"
    /\ IF Known(d)
          THEN /\ devices' = [devices EXCEPT ![d] = Beat(devices[d])]
               /\ active_devices' = ActiveAfterAdd(d)
               /\ db_status' = Upsert(d, "active", ok)
          ELSE UNCHANGED <<devices, active_devices, db_status>>
    /\ last_call' = [op |-> "heartbeat", dev |-> d, ret |-> Known(d), was |-> devices[d].status]
    /\ UNCHANGED <<now, pvars, mvars, lock, sweep, bc, cmd>>

\* POST /api/devices/register of the backend: a new Device document, then
\* register_device; 409 and nothing else when the document exists.
api_register_device(d, a) ==
    /\ db_status[d] = "none"
    /\ db_status' = [db_status EXCEPT ![d] = "active"]
    /\ lock = "free"
    /\ devices' = [devices EXCEPT ![d] = NewRecord(devices[d], a)]
    /\ active_devices' = ActiveAfterAdd(d)
    /\ last_call' = [op |-> "register", dev |-> d, ret |-> TRUE, was |-> devices[d].status]
    /\ UNCHANGED <<now, pvars, mvars, lock, sweep, bc, cmd>>

\* configure_device / restart_device: the lock is taken; an unknown id
\* returns False at once, otherwise the HTTP request is made with the lock
\* held.
\* A call of get_device_status(d): the status is read under the lock.
GetDeviceStatus(d) ==
    /\ lock = "free"
    /\ last_call' = [op |-> "status", dev |-> d, ret |-> Known(d), was |-> get_device_status(d)]
    /\ UNCHANGED <<now, pvars, mvars, devices, active_devices, lock, db_status, sweep, bc, cmd>>

\* Mutant: the lock is given back before the request is made.
LockDuringDelivery_Released(op) == "free"

\* The request is made inside the `with self.lock:` block.
LockDuringDelivery(op) == op

CommandBegin(op, d) ==
    /\ lock = "free"
    /\ IF Known(d)
          THEN /\ lock' = LockDuringDelivery(op)
               /\ cmd' = [op |-> op, dev |-> d]
               /\ UNCHANGED last_call
          ELSE /\ last_call' = [op |-> op, dev |-> d, ret |-> FALSE, was |-> "unknown"]
               /\ UNCHANGED <<lock, cmd>>
    /\ UNCHANGED <<now, pvars, mvars, devices, active_devices, db_status, sweep, bc>>

\* What requests.post can come back with: 200, another status, or an
\* exception (connection error, timeout).
CommandReplies == {"200", "500", "raise"}

\* Mutant: any reply that arrives counts as success.
CommandResult_AnyReply(reply) == reply # "raise"

\* The value returned for a reply: True on status 200 only.
CommandResult(reply) == reply = "200"

\* The request returns and the `with` block is left.
CommandEnd(reply) ==
    /\ cmd # NoCmd
    /\ last_call' = [op |-> cmd.op, dev |-> cmd.dev, ret |-> CommandResult(reply),
                     was |-> devices[cmd.dev].status]
    /\ cmd' = NoCmd
    /\ lock' = "free"
    /\ UNCHANGED <<now, pvars, mvars, devices, active_devices, db_status, sweep, bc>>

configure_device(d) == CommandBegin("configure", d)

restart_device(d) == CommandBegin("restart", d)

(***************************************************************************)
(* DeviceManager: the heartbeat monitor, _monitor_heartbeats               *)
(***************************************************************************)
\* Mutant: the status is not looked at.
Stale_AnyStatus(rec, current_time) == current_time - rec.last_heartbeat > heartbeat_timeout

\* The test the monitor applies to one record.
Stale(rec, current_time) ==
    current_time - rec.last_heartbeat > heartbeat_timeout /\ rec.status = "active"

\* Mutant: the monitor drops the record it finds late.
Demote_Drop(rec) == NoDev

\* `device_info['status'] = 'offline'`
Demote(rec) == [rec EXCEPT !.status = "offline"]

\* `current_time = datetime.utcnow()`, read before the lock is taken.
SweepSample ==
    /\ sweep.pc = "sleep"
    /\ sweep' = [pc |-> "scan", current_time |-> now, to_mark |-> {}]
    /\ UNCHANGED <<now, pvars, mvars, devices, active_devices, lock, db_status, bc, cmd, last_call>>

\* The `with self.lock:` loop over self.devices: every stale active record
\* goes offline, leaves the active set and is noted for the store.
SweepScan ==
    /\ sweep.pc = "scan"
    /\ lock = "free"
    /\ LET stale == {d \in Devices : Known(d) /\ Stale(devices[d], sweep.current_time)} IN
       /\ devices' = [d \in Devices |->
                        IF d \in stale THEN Demote(devices[d])
                                       ELSE devices[d]]
       /\ active_devices' = active_devices \ stale
       /\ sweep' = [pc |-> "persist", current_time |-> 0, to_mark |-> stale]
    /\ UNCHANGED <<now, pvars, mvars, lock, db_status, bc, cmd, last_call>>

\* Mutant: a store call that raises ends the loop over the noted devices.
AfterPersist_Abandons(to_mark, d, ok) == IF ok THEN to_mark \ {d} ELSE {}

\* The try / except is inside the `for device_id in devices_to_mark_offline`
\* loop: whatever the store call does, the loop goes on with the next id.
AfterPersist(to_mark, d, ok) == to_mark \ {d}

\* One round of the loop over devices_to_mark_offline, outside the lock.
SweepPersist(d, ok) ==
    /\ sweep.pc = "persist"
    /\ d \in sweep.to_mark
    /\ db_status' = Upsert(d, "offline", ok)
    /\ sweep' = [sweep EXCEPT !.to_mark = AfterPersist(@, d, ok)]
    /\ UNCHANGED <<now, pvars, mvars, devices, active_devices, lock, bc, cmd, last_call>>

\* time.sleep(self.heartbeat_interval)
SweepSleep ==
    /\ sweep.pc = "persist"
    /\ sweep.to_mark = {}
    /\ sweep' = IdleSweep
    /\ UNCHANGED <<now, pvars, mvars, devices, active_devices, lock, db_status, bc, cmd, last_call>>

Sweep ==
    \/ SweepSample
    \/ SweepScan
    \/ \E d \in Devices, ok \in BOOLEAN : SweepPersist(d, ok)
    \/ SweepSleep

(***************************************************************************)
(* DeviceManager: broadcast_message                                        *)
(***************************************************************************)
\* `with self.lock: active_devices = list(self.active_devices)`
\* Mutant: the loop over the snapshot runs inside the `with` block.
LockAfterSnapshot_Held == "broadcast"

\* The lock when the `with self.lock:` block around the snapshot is left.
LockAfterSnapshot == "free"

BroadcastStart ==
    /\ bc.pc \in {"idle", "done"}
    /\ lock = "free"
    /\ bc' = [pc |-> "lookup", todo |-> get_active_devices, cur |-> "none",
              size |-> Cardinality(get_active_devices),
              sent |-> 0, failed |-> 0, skipped |-> 0]
    /\ lock' = LockAfterSnapshot
    /\ UNCHANGED <<now, pvars, mvars, devices, active_devices, db_status, sweep, cmd, last_call>>

\* get_device_info for the next device of the snapshot, under the lock; a
\* device no longer registered is passed over (`continue`).
BroadcastLookup(d) ==
    /\ bc.pc = "lookup"
    /\ d \in bc.todo
    /\ lock = "free"
    /\ bc' = IF Known(d)
                THEN [bc EXCEPT !.pc = "deliver", !.cur = d, !.todo = @ \ {d}]
                ELSE [bc EXCEPT !.skipped = @ + 1, !.todo = @ \ {d}]
    /\ UNCHANGED <<now, pvars, mvars, devices, active_devices, lock, db_status, sweep, cmd, last_call>>

\* Mutant: the first failure ends the loop.
TodoAfterFailure_Abort(todo) == {}

\* The devices still to be served after a delivery that failed.
TodoAfterFailure(todo) == todo

\* requests.post to the device: 200, another status, or an exception.
BroadcastDeliver(outcome) ==
    /\ bc.pc = "deliver"
    /\ bc' = IF outcome = "ok"
                THEN [bc EXCEPT !.pc = "lookup", !.cur = "none", !.sent = @ + 1]
                ELSE [bc EXCEPT !.pc = "lookup", !.cur = "none", !.failed = @ + 1,
                                !.todo = TodoAfterFailure(@)]
    /\ UNCHANGED <<now, pvars, mvars, devices, active_devices, lock, db_status, sweep, cmd, last_call>>

\* `return sent_count, failed_count`
BroadcastReturn ==
    /\ bc.pc = "lookup"
    /\ bc.todo = {}
    /\ bc' = [bc EXCEPT !.pc = "done"]
    /\ UNCHANGED <<now, pvars, mvars, devices, active_devices, lock, db_status, sweep, cmd, last_call>>

broadcast_message ==
    \/ BroadcastStart
    \/ \E d \in Devices : BroadcastLookup(d)
    \/ \E outcome \in {"ok", "status", "raise"} : BroadcastDeliver(outcome)
    \/ BroadcastReturn

(***************************************************************************)
(* Specifications of the registry.                                         *)
(***************************************************************************)
RegistryDevices == {"cam1", "cam2"}

\* Registration, heartbeats, commands and the monitor over time.
RegistryNext ==
    \/ Tick(MaxTime)
    \/ \E d \in RegistryDevices, a \in Addresses : register_device(d, a)
    \/ \E d \in RegistryDevices, a \in Addresses : api_register_device(d, a)
    \/ \E d \in RegistryDevices : unregister_device(d)
    \/ \E d \in RegistryDevices, ok \in BOOLEAN : update_device_heartbeat(d, ok)
    \/ \E d \in RegistryDevices : configure_device(d)
    \/ \E d \in RegistryDevices : restart_device(d)
    \/ \E reply \in CommandReplies : CommandEnd(reply)
    \/ Sweep

SpecRegistry == Init /\ [][RegistryNext]_vars

\* Deliveries to a device while devices register, beat and leave and the
\* monitor runs.
DeliveryNext ==
    \/ Tick(MaxTime)
    \/ \E d \in RegistryDevices, a \in Addresses : register_device(d, a)
    \/ \E d \in RegistryDevices : unregister_device(d)
    \/ \E d \in RegistryDevices : update_device_heartbeat(d, TRUE)
    \/ \E d \in RegistryDevices : GetDeviceStatus(d)
    \/ \E d \in RegistryDevices : configure_device(d)
    \/ \E d \in RegistryDevices : restart_device(d)
    \/ \E reply \in CommandReplies : CommandEnd(reply)
    \/ SweepSample
    \/ SweepScan
    \/ \E d \in RegistryDevices : SweepPersist(d, TRUE)
    \/ SweepSleep

SpecDelivery == Init /\ [][DeliveryNext]_vars

\* Heartbeats and the monitor with a durable store that can fail.
StoreNext ==
    \/ Tick(MaxTime)
    \/ \E d \in RegistryDevices : api_register_device(d, "10.0.0.5")
    \/ \E d \in RegistryDevices, ok \in BOOLEAN : update_device_heartbeat(d, ok)
    \/ Sweep

SpecStore == Init /\ [][StoreNext]_vars

\* Heartbeats and the monitor with a durable store that takes every write.
SyncNext ==
    \/ Tick(MaxTime)
    \/ \E d \in RegistryDevices : api_register_device(d, "10.0.0.5")
    \/ \E d \in RegistryDevices : update_device_heartbeat(d, TRUE)
    \/ SweepSample
    \/ SweepScan
    \/ \E d \in RegistryDevices : SweepPersist(d, TRUE)
    \/ SweepSleep

SpecSync == Init /\ [][SyncNext]_vars

\* A fleet of three under broadcast, with registration changing meanwhile.
BroadcastNext ==
    \/ \E d \in Devices : register_device(d, "10.0.0.5")
    \/ \E d \in Devices : unregister_device(d)
    \/ broadcast_message

SpecBroadcast == Init /\ [][BroadcastNext]_vars

\* A broadcast while devices register, beat and leave and the monitor runs.
FleetNext ==
    \/ Tick(MaxTime)
    \/ \E d \in RegistryDevices : register_device(d, "10.0.0.5")
    \/ \E d \in RegistryDevices : unregister_device(d)
    \/ \E d \in RegistryDevices : update_device_heartbeat(d, TRUE)
    \/ Sweep
    \/ broadcast_message

SpecFleet == Init /\ [][FleetNext]_vars

(***************************************************************************)
(* MQTTClient: _topic_matches.  A topic or subscription string is held as  *)
(* the sequence of parts str.split('/') gives, which always has at least   *)
(* one part.                                                               *)
(***************************************************************************)
Range(f) == {f[i] : i \in DOMAIN f}

\* Mutant: a difference in length is never looked at.
LengthMismatch_Ignored(sub_parts, topic_parts) == FALSE

\* `len(sub_parts) != len(topic_parts) and '#' not in sub_parts`
LengthMismatch(sub_parts, topic_parts) ==
    Len(sub_parts) # Len(topic_parts) /\ "#" \notin Range(sub_parts)

\* Mutant: '#' is compared like any other part.
IsMultiLevel_Never(sub_part) == FALSE

\* `sub_part == '#'`
IsMultiLevel(sub_part) == sub_part = "#"

\* The `for i, sub_part in enumerate(sub_parts)` loop from part i on (i
\* counts from 1 here): '#' returns True, '+' goes on to the next part
\* before the topic's length is looked at, a part beyond the topic's end or
\* different from the topic's part returns False; True when the loop ends.
RECURSIVE MatchFrom(_, _, _)
MatchFrom(sub_parts, topic_parts, i) ==
    IF i > Len(sub_parts) THEN TRUE
    ELSE IF IsMultiLevel(sub_parts[i]) THEN TRUE
    ELSE IF sub_parts[i] = "+" THEN MatchFrom(sub_parts, topic_parts, i + 1)
    ELSE IF i > Len(topic_parts) THEN FALSE
    ELSE IF sub_parts[i] # topic_parts[i] THEN FALSE
    ELSE MatchFrom(sub_parts, topic_parts, i + 1)

topic_matches(subscription, topic) ==
    IF LengthMismatch(subscription, topic) THEN FALSE
    ELSE MatchFrom(subscription, topic, 1)

\* All sequences of 1..n parts over an alphabet.
Parts(alphabet, n) == UNION {[1..k -> alphabet] : k \in 1..n}

Literals == {"a", "b"}
Subscriptions == Parts(Literals \cup {"+", "#"}, MaxLevels)
Topics == Parts(Literals, MaxLevels)

\* One call _topic_matches(subscription, topic).
TopicMatches ==
    /\ match.result = "none"
    /\ match' = [match EXCEPT !.result =
                     IF topic_matches(match.subscription, match.topic) THEN "True" ELSE "False"]
    /\ UNCHANGED <<now, pvars, rvars, cvars>>

\* The matcher applied to every subscription and topic of the bounded
\* alphabet.
InitMatch ==
    /\ InitRest
    /\ InitClient
    /\ match \in [subscription : Subscriptions, topic : Topics, result : {"none"}]

MatchNext == TopicMatches

SpecMatch == InitMatch /\ [][MatchNext]_vars

(***************************************************************************)
(* MQTTClient: connection callbacks, subscription table and dispatch.      *)
(* Every method and callback runs to its end as one step; effects lists    *)
(* the transport calls and handler invocations the latest one made.        *)
(***************************************************************************)
ControlTopic == <<"devices", "dev1", "control">>
AckTopic == <<"devices", "dev1", "control", "ack">>
StatusTopic == <<"devices", "dev1", "status">>

Effect(kind, topic, arg, retain) ==
    [kind |-> kind, topic |-> topic, arg |-> arg, retain |-> retain]

\* connect(): when client.connect raises, False is returned and nothing
\* else is done; otherwise the network thread is started and a new
\* _heartbeat_loop thread with it.  The connack comes later, in _on_connect.
do_connect(ok) ==
    /\ transport \in {"closed", "connecting"}
    /\ IF ok
          THEN /\ transport' = "connecting"
               /\ loop_running' = TRUE
               /\ \E h \in HbIds :
                     /\ heartbeat_threads[h] = "none"
                     /\ \A g \in HbIds : g < h => heartbeat_threads[g] # "none"
                     /\ heartbeat_threads' = [heartbeat_threads EXCEPT ![h] = "test"]
               /\ stopped' = FALSE
          ELSE UNCHANGED <<transport, loop_running, heartbeat_threads, stopped>>
    /\ effects' = <<>>
    /\ UNCHANGED <<now, pvars, rvars, is_connected, reconnect_loop, sessions, tvars,
                   last_ping, last_beat, match>>

\* connect() called by the device's code.
connect(ok) == do_connect(ok) /\ UNCHANGED restart_thread

\* Mutant: the state is set, nothing is sent.
OnConnectEffects_Silent == <<>>

\* What _on_connect does on the transport when rc == 0.
OnConnectEffects ==
    <<Effect("subscribe", ControlTopic, "qos1", FALSE),
      Effect("publish", StatusTopic, "online", TRUE)>>

ConnackCodes == {0, 5}

\* _on_connect(client, userdata, flags, rc), called by the network thread;
\* a refused connection is closed.
OnConnect(rc) ==
    /\ transport = "connecting"
    /\ loop_running
    /\ IF rc = 0
          THEN /\ is_connected' = TRUE
               /\ transport' = "open"
               /\ sessions' = IF sessions < MaxSessions THEN sessions + 1 ELSE sessions
               /\ effects' = OnConnectEffects
               /\ last_beat' = now
          ELSE /\ is_connected' = FALSE
               /\ transport' = "closed"
               /\ effects' = <<>>
               /\ UNCHANGED <<sessions, last_beat>>
    /\ UNCHANGED <<now, pvars, rvars, loop_running, stopped, reconnect_loop, tvars,
                   heartbeat_threads, last_ping, restart_thread, match>>

\* Mutant: the status goes out whatever is_connected says.
Farewell_Always == <<Effect("publish", StatusTopic, "offline", TRUE)>>

\* `if self.is_connected: self.client.publish(.../status, offline, retain=True)`
Farewell ==
    IF is_connected THEN <<Effect("publish", StatusTopic, "offline", TRUE)>> ELSE <<>>

\* Mutant: every disconnection starts a reconnection loop.
Unexpected_Always(rc) == TRUE

\* `if rc != 0:`
Unexpected(rc) == rc # 0

\* A _reconnect_loop thread at its start: `delay = self.reconnect_delay`.
NewLoop == [pc |-> "test", delay |-> reconnect_delay * DelayScale, failed |-> 0]

\* _on_disconnect(client, userdata, rc): the flag is cleared, and any rc but
\* 0 starts a _reconnect_loop thread.
on_disconnect(rc) ==
    /\ is_connected' = FALSE
    /\ IF Unexpected(rc)
          THEN \E l \in LoopIds :
                  /\ reconnect_loop[l].pc = "none"
                  /\ \A k \in LoopIds : k < l => reconnect_loop[k].pc # "none"
                  /\ reconnect_loop' = [reconnect_loop EXCEPT ![l] = NewLoop]
          ELSE UNCHANGED reconnect_loop

\* Reason codes of a connection the network thread finds lost.
DisconnectCodes == {1, 7}

\* The network thread loses the connection and calls _on_disconnect.
OnDisconnect(rc) ==
    /\ transport = "open"
    /\ loop_running
    /\ transport' = "closed"
    /\ on_disconnect(rc)
    /\ effects' = <<>>
    /\ UNCHANGED <<now, pvars, rvars, loop_running, stopped, sessions, tvars, hvars, restart_thread, match>>

\* disconnect(): the offline status, loop_stop(), client.disconnect().  With
\* its network thread stopped paho writes the DISCONNECT packet inside
\* client.disconnect() and calls _on_disconnect with rc = 0 before it
\* returns; without a connection there is nothing to write and no callback.
do_disconnect ==
    /\ effects' = Farewell \o <<Effect("loop_stop", <<>>, "none", FALSE),
                                Effect("disconnect", <<>>, "none", FALSE)>>
    /\ loop_running' = FALSE
    /\ transport' = "closed"
    /\ IF transport # "closed"
          THEN on_disconnect(0)
          ELSE UNCHANGED <<is_connected, reconnect_loop>>
    /\ stopped' = TRUE
    /\ UNCHANGED <<now, pvars, rvars, sessions, tvars, hvars, match>>

\* disconnect() called by the device's code.
disconnect == do_disconnect /\ UNCHANGED restart_thread

\* _handle_restart after time.sleep(1): self.disconnect().
RestartDisconnect ==
    /\ restart_thread = "sleep1"
    /\ do_disconnect
    /\ restart_thread' = "sleep2"

\* _handle_restart after time.sleep(2): self.connect(), and the thread ends.
RestartConnect(ok) ==
    /\ restart_thread = "sleep2"
    /\ do_connect(ok)
    /\ restart_thread' = "none"

\* `while not self.is_connected:` and, inside, the log line and
\* time.sleep(delay).
ReconnectTest(l) ==
    /\ reconnect_loop[l].pc = "test"
    /\ reconnect_loop' = [reconnect_loop EXCEPT ![l] =
                            IF is_connected THEN NoLoop ELSE [@ EXCEPT !.pc = "attempt"]]
    /\ UNCHANGED <<now, pvars, rvars, is_connected, transport, loop_running, stopped, sessions,
                   tvars, hvars, effects, restart_thread, match>>

\* Mutant: the delay is doubled.
NextDelay_Doubled(delay) ==
    IF 2 * delay >= reconnect_max_delay * DelayScale
       THEN reconnect_max_delay * DelayScale
       ELSE 2 * delay

\* `delay = min(delay * 1.5, self.reconnect_max_delay)`
NextDelay(delay) ==
    IF 3 * delay >= 2 * reconnect_max_delay * DelayScale
       THEN reconnect_max_delay * DelayScale
       ELSE (3 * delay) \div 2

\* Mutant: the loop goes on after a reconnect that went through.
AfterReconnect_GoesOn(loop) == [loop EXCEPT !.pc = "test"]

\* `self.client.reconnect(); break`
AfterReconnect(loop) == NoLoop

\* client.reconnect() after the sleep: when it returns the loop ends, with
\* the connection under way; when it raises the delay grows and the loop
\* goes round.
ReconnectAttempt(l, ok) ==
    /\ reconnect_loop[l].pc = "attempt"
    /\ IF ok
          THEN /\ transport' = "connecting"
               /\ reconnect_loop' = [reconnect_loop EXCEPT ![l] = AfterReconnect(@)]
          ELSE /\ reconnect_loop[l].failed < MaxAttempts
               /\ reconnect_loop' = [reconnect_loop EXCEPT ![l] =
                                       [pc |-> "test", delay |-> NextDelay(@.delay),
                                        failed |-> @.failed + 1]]
               /\ UNCHANGED transport
    /\ effects' = <<Effect("reconnect", <<>>, IF ok THEN "ok" ELSE "raise", FALSE)>>
    /\ UNCHANGED <<now, pvars, rvars, is_connected, loop_running, stopped, sessions,
                   tvars, hvars, restart_thread, match>>

\* Mutant: the message is handed to the transport whatever is_connected says.
Publish_Unguarded(topic, arg, pub_ok) ==
    IF pub_ok THEN <<Effect("publish", topic, arg, FALSE)>> ELSE <<>>

\* self.publish(topic, message): refused when not connected; nothing goes
\* out either when client.publish raises or returns an error code.
Publish(topic, arg, pub_ok) ==
    IF is_connected /\ pub_ok THEN <<Effect("publish", topic, arg, FALSE)>> ELSE <<>>

\* publish(topic, message) called by the device's code.
publish(topic, pub_ok) ==
    /\ effects' = Publish(topic, "data", pub_ok)
    /\ mq_call' = [op |-> "publish", topic |-> topic, callback |-> "none",
                   ret |-> Publish(topic, "data", pub_ok) # <<>>]
    /\ UNCHANGED <<now, pvars, rvars, is_connected, transport, loop_running, stopped,
                   reconnect_loop, sessions, message_callbacks, hvars, restart_thread, match>>

HeartbeatTopic == <<"devices", "dev1", "heartbeat">>

\* Mutant: a thread that finds the client not connected waits and looks again.
HbAfterTest_Waits(connected) == "sleep"

\* `while self.is_connected:` ... `time.sleep(1)`; the thread ends when the
\* test fails.
HbAfterTest(connected) == IF connected THEN "sleep" ELSE "none"

\* One round of _heartbeat_loop up to its sleep: the loop test, the
\* interval test, `self.last_ping = current_time` and the publish of the
\* heartbeat, which goes out when client.publish accepts it.
HbTest(h, pub_ok) ==
    /\ heartbeat_threads[h] = "test"
    /\ heartbeat_threads' = [heartbeat_threads EXCEPT ![h] = HbAfterTest(is_connected)]
    /\ IF is_connected /\ now - last_ping >= ping_interval
          THEN /\ last_ping' = now
               /\ effects' = Publish(HeartbeatTopic, "heartbeat", pub_ok)
               /\ last_beat' = IF pub_ok THEN now ELSE last_beat
          ELSE /\ pub_ok
               /\ effects' = <<>>
               /\ UNCHANGED <<last_ping, last_beat>>
    /\ UNCHANGED <<now, pvars, rvars, is_connected, transport, loop_running, stopped,
                   reconnect_loop, sessions, tvars, restart_thread, match>>

\* time.sleep(1) returns, no clock kept.
HbWake(h) ==
    /\ heartbeat_threads[h] = "sleep"
    /\ heartbeat_threads' = [heartbeat_threads EXCEPT ![h] = "test"]
    /\ UNCHANGED <<now, pvars, rvars, is_connected, transport, loop_running, stopped,
                   reconnect_loop, sessions, tvars, last_ping, last_beat, effects, restart_thread, match>>

\* One second passes: every time.sleep(1) returns.  A thread that is ready
\* to run does so before the second is over.
ClientTick ==
    /\ now < MaxTime
    /\ \A h \in HbIds : heartbeat_threads[h] # "test"
    /\ now' = now + 1
    /\ heartbeat_threads' = [h \in HbIds |->
                               IF heartbeat_threads[h] = "sleep" THEN "test"
                               ELSE heartbeat_threads[h]]
    /\ UNCHANGED <<pvars, rvars, is_connected, transport, loop_running, stopped,
                   reconnect_loop, sessions, tvars, last_ping, last_beat, effects, restart_thread, match>>

\* Positions of the table that hold a topic.
Slots(topic) == {i \in 1..Len(message_callbacks) : message_callbacks[i].topic = topic}

\* `self.message_callbacks[topic] = callback`: a dict keeps a key that is
\* already there in its place and puts a new one last.
TablePut(topic, callback) ==
    IF Slots(topic) # {}
       THEN [i \in 1..Len(message_callbacks) |->
               IF message_callbacks[i].topic = topic
                  THEN [topic |-> topic, callback |-> callback]
                  ELSE message_callbacks[i]]
       ELSE Append(message_callbacks, [topic |-> topic, callback |-> callback])

\* `if topic in self.message_callbacks: del self.message_callbacks[topic]`
TableDel(topic) == SelectSeq(message_callbacks, LAMBDA en : en.topic # topic)

\* Mutant: the table is written whatever the connection and the broker say.
Accepted_Always(broker_ok) == TRUE

\* subscribe / unsubscribe go through only when is_connected is set and the
\* paho call returns MQTT_ERR_SUCCESS without raising.
Accepted(broker_ok) == is_connected /\ broker_ok

\* subscribe(topic, callback)
subscribe(topic, callback, broker_ok) ==
    /\ message_callbacks' = IF Accepted(broker_ok) THEN TablePut(topic, callback)
                                                   ELSE message_callbacks
    /\ effects' = IF is_connected THEN <<Effect("subscribe", topic, "qos0", FALSE)>> ELSE <<>>
    /\ mq_call' = [op |-> "subscribe", topic |-> topic, callback |-> callback,
                   ret |-> Accepted(broker_ok)]
    /\ UNCHANGED <<now, pvars, rvars, is_connected, transport, loop_running, stopped,
                   reconnect_loop, sessions, hvars, restart_thread, match>>

\* unsubscribe(topic)
unsubscribe(topic, broker_ok) ==
    /\ message_callbacks' = IF Accepted(broker_ok) THEN TableDel(topic) ELSE message_callbacks
    /\ effects' = IF is_connected THEN <<Effect("unsubscribe", topic, "none", FALSE)>> ELSE <<>>
    /\ mq_call' = [op |-> "unsubscribe", topic |-> topic, callback |-> "none",
                   ret |-> Accepted(broker_ok)]
    /\ UNCHANGED <<now, pvars, rvars, is_connected, transport, loop_running, stopped,
                   reconnect_loop, sessions, hvars, restart_thread, match>>

\* Payloads of a control message: a command, a JSON object without one, or
\* text json.loads rejects.
Commands == {"restart", "config", "ping", "reboot", "nocommand", "badjson"}

\* _handle_control_message(payload)
\* Mutant: the acknowledgement goes out before the update is applied.
ConfigEffects_AckFirst(pub_ok) ==
    Publish(AckTopic, "config:applied", pub_ok)
       \o <<Effect("config_update", <<>>, "applied", FALSE)>>

\* `self._handle_config_update(config)` and then the acknowledgement.
ConfigEffects(pub_ok) ==
    <<Effect("config_update", <<>>, "applied", FALSE)>>
       \o Publish(AckTopic, "config:applied", pub_ok)

HandleControlMessage(command, pub_ok) ==
    CASE command = "restart" ->
            Publish(AckTopic, "restart:received", pub_ok)
               \o <<Effect("thread", <<>>, "_handle_restart", FALSE)>>
      [] command = "config" -> ConfigEffects(pub_ok)
      [] command = "ping" -> Publish(AckTopic, "pong", pub_ok)
      [] OTHER -> <<>>

\* The entries the wildcard scan finds matching, by position.
MatchingSlots(topic) ==
    {i \in 1..Len(message_callbacks) : topic_matches(message_callbacks[i].topic, topic)}

\* Mutant: the scan does not stop at the first match.
ScanHits_All(matching) == matching

\* The scan calls the first matching entry and returns.
ScanHits(matching) ==
    IF matching = {} THEN {} ELSE {CHOOSE i \in matching : \A j \in matching : i <= j}

\* The callbacks of a set of positions, in table order.
RECURSIVE Invocations(_, _, _)
Invocations(hits, topic, i) ==
    IF i > Len(message_callbacks) THEN <<>>
    ELSE (IF i \in hits THEN <<Effect("invoke", topic, message_callbacks[i].callback, FALSE)>>
                        ELSE <<>>)
         \o Invocations(hits, topic, i + 1)

\* _on_message(client, userdata, msg): the control topic first, then the
\* exact entry, then the scan; what a callback raises is caught and logged.
OnMessage(topic, command, pub_ok) ==
    /\ transport = "open"
    /\ loop_running
    /\ effects' =
         IF topic = ControlTopic THEN HandleControlMessage(command, pub_ok)
         ELSE IF Slots(topic) # {} THEN Invocations(Slots(topic), topic, 1)
         ELSE Invocations(ScanHits(MatchingSlots(topic)), topic, 1)
    /\ IF topic = ControlTopic /\ command = "restart"
          THEN /\ restart_thread = "none"
               /\ restart_thread' = "sleep1"
          ELSE UNCHANGED restart_thread
    /\ UNCHANGED <<now, pvars, rvars, is_connected, transport, loop_running, stopped,
                   reconnect_loop, sessions, tvars, hvars, match>>

\* Topics the client's user subscribes to, and topics messages come in on.
ClientPatterns == {<<"devices", "broadcast">>, <<"devices", "+">>, <<"devices", "#">>}
InboundTopics == {<<"devices", "broadcast">>, <<"devices", "x", "y">>, <<"alerts">>, ControlTopic}
Handlers == {"h1", "h2"}

\* Connections made, lost and closed; reconnection attempts go through.
ClientNext ==
    \/ \E ok \in BOOLEAN : connect(ok)
    \/ \E rc \in ConnackCodes : OnConnect(rc)
    \/ \E rc \in DisconnectCodes : OnDisconnect(rc)
    \/ \E l \in LoopIds : ReconnectTest(l)
    \/ \E l \in LoopIds : ReconnectAttempt(l, TRUE)
    \/ \E t \in ClientPatterns, h \in Handlers, ok \in BOOLEAN : subscribe(t, h, ok)
    \/ \E t \in ClientPatterns, ok \in BOOLEAN : unsubscribe(t, ok)
    \/ \E t \in InboundTopics \ {ControlTopic} : OnMessage(t, "ping", TRUE)
    \/ \E c \in Commands \ {"restart"}, ok \in BOOLEAN : OnMessage(ControlTopic, c, ok)

SpecClient == Init /\ [][ClientNext]_vars

\* The connection and its reconnection loops, attempts failing or not.
ReconnectNext ==
    \/ connect(TRUE)
    \/ \E rc \in ConnackCodes : OnConnect(rc)
    \/ \E rc \in DisconnectCodes : OnDisconnect(rc)
    \/ disconnect
    \/ \E l \in LoopIds : ReconnectTest(l)
    \/ \E l \in LoopIds, ok \in BOOLEAN : ReconnectAttempt(l, ok)
    \/ \E h \in HbIds : HbTest(h, TRUE)
    \/ \E h \in HbIds : HbWake(h)

SpecReconnect == Init /\ [][ReconnectNext]_vars

\* The same with a broker that accepts every connection; the network thread,
\* while it runs, gets to read the connack it has been sent.
AcceptingNext ==
    \/ connect(TRUE)
    \/ OnConnect(0)
    \/ \E rc \in DisconnectCodes : OnDisconnect(rc)
    \/ disconnect
    \/ \E l \in LoopIds : ReconnectTest(l)
    \/ \E l \in LoopIds, ok \in BOOLEAN : ReconnectAttempt(l, ok)
    \/ \E h \in HbIds : HbTest(h, TRUE)
    \/ \E h \in HbIds : HbWake(h)

\* Control messages and the restart they can ask for, across lost
\* connections.
ControlNext ==
    \/ connect(TRUE)
    \/ OnConnect(0)
    \/ \E rc \in DisconnectCodes : OnDisconnect(rc)
    \/ \E c \in Commands, ok \in BOOLEAN : OnMessage(ControlTopic, c, ok)
    \/ RestartDisconnect
    \/ \E ok \in BOOLEAN : RestartConnect(ok)
    \/ \E l \in LoopIds : ReconnectTest(l)
    \/ \E l \in LoopIds : ReconnectAttempt(l, TRUE)
    \/ \E h \in HbIds : HbTest(h, TRUE)
    \/ \E h \in HbIds : HbWake(h)

SpecControl == Init /\ [][ControlNext]_vars

\* Dispatch with the handlers DeviceClient registers, the one for the
\* device's own control topic among them, and a wildcard over all devices.
DispatchPatterns == {ControlTopic, <<"devices", "broadcast">>, <<"devices", "#">>}

DispatchNext ==
    \/ connect(TRUE)
    \/ OnConnect(0)
    \/ \E t \in DispatchPatterns, h \in Handlers : subscribe(t, h, TRUE)
    \/ \E t \in DispatchPatterns \ {ControlTopic} : OnMessage(t, "ping", TRUE)
    \/ \E c \in Commands, ok \in BOOLEAN : OnMessage(ControlTopic, c, ok)

SpecDispatch == Init /\ [][DispatchNext]_vars

\* The client as the device's code drives it across connections: connect
\* and disconnect, publish and subscribe, with the threads connect() and
\* _on_disconnect start.
SessionNext ==
    \/ connect(TRUE)
    \/ OnConnect(0)
    \/ \E rc \in DisconnectCodes : OnDisconnect(rc)
    \/ disconnect
    \/ \E l \in LoopIds : ReconnectTest(l)
    \/ \E l \in LoopIds : ReconnectAttempt(l, TRUE)
    \/ \E h \in HbIds : HbTest(h, TRUE)
    \/ \E h \in HbIds : HbWake(h)
    \/ subscribe(<<"devices", "broadcast">>, "h1", TRUE)
    \/ \E ok \in BOOLEAN : publish(<<"devices", "dev1", "data">>, ok)

SpecSession == Init /\ [][SessionNext]_vars

SpecAccepting == Init /\ [][AcceptingNext]_vars /\ WF_vars(OnConnect(0))

\* The connection and its heartbeat threads against the clock.
HeartbeatNext ==
    \/ ClientTick
    \/ connect(TRUE)
    \/ OnConnect(0)
    \/ \E rc \in DisconnectCodes : OnDisconnect(rc)
    \/ disconnect
    \/ \E l \in LoopIds : ReconnectTest(l)
    \/ \E l \in LoopIds : ReconnectAttempt(l, TRUE)
    \/ \E h \in HbIds : HbTest(h, TRUE)

SpecHeartbeat == Init /\ [][HeartbeatNext]_vars

\* The whole module.
Next ==
    \/ Tick(MaxTime)
    \/ process_image(Inputs)
    \/ process_data(Inputs)
    \/ start_processing
    \/ stop_processing
    \/ JoinReturns
    \/ JoinTimesOut
    \/ \E t \in Threads : Consumer(t)
    \/ \E t \in Threads : AttSendFails(t)
    \/ \E r \in Replies : send_attendance_request(r)
    \/ \E r \in Replies : send_sensor_data(r)
    \/ \E d \in Devices, a \in Addresses : register_device(d, a)
    \/ \E d \in Devices, a \in Addresses : api_register_device(d, a)
    \/ \E d \in Devices : unregister_device(d)
    \/ \E d \in Devices, ok \in BOOLEAN : update_device_heartbeat(d, ok)
    \/ \E d \in Devices : configure_device(d)
    \/ \E d \in Devices : restart_device(d)
    \/ \E reply \in CommandReplies : CommandEnd(reply)
    \/ Sweep
    \/ \E d \in Devices : GetDeviceStatus(d)
    \/ broadcast_message
    \/ TopicMatches
    \/ ClientNext
    \/ ReconnectNext
    \/ HeartbeatNext
    \/ \E h \in HbIds : HbTest(h, FALSE)
    \/ SessionNext
    \/ DispatchNext
    \/ ControlNext

Spec == Init /\ [][Next]_vars

(***************************************************************************)
(* Properties of the ingestion queue (SpecQueue).                          *)
(***************************************************************************)
Processing(t) == thr[t].pc \in {"process", "att_update", "att_send"}

\* C1: whatever the producers, the consumers and start/stop do, the queue
\* never holds more than max_queue_size items, and a process_image or
\* process_data call made while it holds max_queue_size items returns
\* False and leaves the queue, contents and order, as it was.
C1_QueueBounded ==
    /\ [](Len(processing_queue) <= max_queue_size)
    /\ [][\A in \in Inputs :
            (Enqueue(in[1], in[2]) /\ Len(processing_queue) = max_queue_size)
               => (last_enqueue'.ret = "false" /\ processing_queue' = processing_queue)]_vars

\* C1 witness: an enqueue has just been refused on a queue that is full.
C1_Witness == last_enqueue.ret = "false" /\ Len(processing_queue) = max_queue_size

\* C7: a consumer holds queue_lock only inside the pop: whenever an item is
\* being processed (also during the POST of an attendance report) the lock
\* is free, and a process_data call can run to completion in that very
\* state, with True or with the queue-full False.
C7_EnqueueNeverWaits ==
    \A t \in Threads :
        Processing(t) =>
            /\ queue_lock = 0
            /\ (QueueFull(processing_queue) \/ next_id <= MaxItems)
                  => ENABLED process_data(QueueInputs)

\* C7 witness: a consumer is inside the POST of an attendance report and the
\* latest enqueue was accepted while a consumer was processing an item.
C7_Witness ==
    /\ \E t \in Threads : thr[t].pc = "att_send"
    /\ last_enqueue.busy
    /\ last_enqueue.ret = "true"

\* C8: the items are popped in the order in which they were accepted, each
\* at most once: the k-th pop takes the k-th accepted item, what is left in
\* the queue are the items accepted after those in acceptance order, and no
\* two consumers hold the same item; with one consumer or two, and across
\* start_processing / stop_processing.
C8_FifoAtMostOnce ==
    /\ \A k \in 1..Len(taken) : taken[k] = k
    /\ \A k \in 1..Len(processing_queue) : processing_queue[k].id = Len(taken) + k
    /\ \A t \in Threads : thr[t].item # NoItem =>
          \E k \in 1..Len(taken) : taken[k] = thr[t].item.id
    /\ \A t, u \in Threads :
          (t # u /\ thr[t].item # NoItem /\ thr[u].item # NoItem)
             => thr[t].item.id # thr[u].item.id

\* C8 witness: two consumers are alive, each processing an item of its own,
\* and a third accepted item waits in the queue.
C8_Witness ==
    /\ \A t \in Threads : Processing(t)
    /\ Len(taken) = 2
    /\ Len(processing_queue) = 1

(***************************************************************************)
(* Properties of the attendance cooldown (SpecDedup) and of the image path *)
(* (SpecImage).                                                            *)
(***************************************************************************)
\* The k-th verdict has an earlier forwarded item of the same subject whose
\* timestamp lies in the cooldown window before its own.
AcceptedInWindow(k) ==
    \E j \in 1..(k - 1) :
        /\ decisions[j].forward
        /\ decisions[j].user = decisions[k].user
        /\ decisions[k].ts - decisions[j].ts >= 0
        /\ decisions[k].ts - decisions[j].ts < min_attendance_interval

\* C2: an Attendance item of a subject is forwarded if and only if no item
\* of that subject accepted before it has its timestamp within the cooldown
\* window before this item's timestamp.
C2_ForwardIffOutsideWindow ==
    \A k \in 1..Len(decisions) : decisions[k].forward <=> ~AcceptedInWindow(k)

\* C9 as claimed: when the backend answers the identification of a face
\* found in an Image item, an Attendance item is appended to the queue.
C9_FaceBecomesAttendanceItem ==
    [][\A r \in Replies :
          send_attendance_request(r) =>
             /\ Len(processing_queue') = Len(processing_queue) + 1
             /\ processing_queue'[Len(processing_queue')].type = "attendance"]_vars

\* C9 as the code has it: an Image item in which a face is found makes the
\* pipeline post that face to the backend's attendance endpoint on a thread
\* of its own; neither that step nor the backend's reply appends anything
\* to the queue, and neither consults or changes the cooldown state: the
\* report does not pass through the per-subject cooldown check.
C9_FaceGoesStraightToBackend ==
    [][/\ \A t \in Threads :
            (thr[t].pc = "process" /\ thr[t].item.type = "image"
                /\ thr[t].item.arg = "face" /\ thr'[t].pc = "loop")
               => /\ outbox'.face = outbox.face + 1
                  /\ outbox'.pending = outbox.pending + 1
                  /\ UNCHANGED <<processing_queue, next_id, last_attendance_time, decisions>>
       /\ \A r \in Replies :
            send_attendance_request(r) =>
               UNCHANGED <<processing_queue, next_id, last_attendance_time, decisions>>]_vars

\* C9 witness: the face of an image was posted and answered, no cooldown
\* verdict was ever made, the cooldown map is empty and so is the queue.
C9_Witness ==
    /\ outbox.face = 1
    /\ outbox.pending = 0
    /\ decisions = <<>>
    /\ \A u \in Subjects : last_attendance_time[u] = -1
    /\ processing_queue = <<>>
    /\ Len(taken) = 1

(***************************************************************************)
(* Properties of the device registry (SpecRegistry) and of the broadcast   *)
(* (SpecBroadcast).                                                        *)
(***************************************************************************)
\* C3: whenever the registry lock is free, the two views agree on every
\* device: it is in the list get_active_devices returns if and only if
\* get_device_status reports "active" for it (so never Active in one view
\* and Offline or unknown in the other).
C3_ViewsAgree ==
    lock = "free" =>
        \A d \in Devices : (d \in get_active_devices) <=> (get_device_status(d) = "active")

\* C3 witness: with the lock free, one device is Active and in the set while
\* another was demoted by the monitor and is in neither.
C3_Witness ==
    /\ lock = "free"
    /\ \E d, e \in Devices :
          /\ devices[d].status = "active" /\ d \in active_devices
          /\ devices[e].status = "offline" /\ e \notin active_devices

C5_HeartbeatMonotone ==
    [][\A d \in Devices :
          /\ (Known(d) /\ devices'[d] # NoDev)
                => devices'[d].last_heartbeat >= devices[d].last_heartbeat
          /\ ((\E ok \in BOOLEAN : update_device_heartbeat(d, ok)) /\ last_call'.ret)
                => /\ devices'[d].status = "active"
                   /\ d \in active_devices'
                   /\ devices'[d].last_heartbeat = now]_vars

\* C5 witness: a heartbeat has just returned True for a device that was
\* Offline, and the device is Active and in the active set.
C5_Witness ==
    /\ last_call.op = "heartbeat" /\ last_call.ret /\ last_call.was = "offline"
    /\ devices[last_call.dev].status = "active"
    /\ last_call.dev \in active_devices

StripTime(rec) == [ip_address |-> rec.ip_address, status |-> rec.status]

\* C10: register_device(id, address) returns True on a new, an Active and an
\* Offline id alike and leaves the record of id Active with that address and
\* last_heartbeat = now, id in the active set and every other device as it
\* was; on a device that is already Active at that address it changes
\* nothing but the timestamp.
C10_RegisterIdempotent ==
    [][\A d \in Devices, a \in Addresses :
          register_device(d, a) =>
             /\ last_call'.ret
             /\ devices'[d] = [ip_address |-> a, status |-> "active", last_heartbeat |-> now]
             /\ active_devices' = active_devices \cup {d}
             /\ \A e \in Devices \ {d} : devices'[e] = devices[e]
             /\ (devices[d].ip_address = a /\ devices[d].status = "active")
                   => /\ StripTime(devices'[d]) = StripTime(devices[d])
                      /\ active_devices' = active_devices]_vars

\* C10 witness: register_device has just returned True for a device that
\* was Offline at another address; it is Active at the new one.
C10_Witness ==
    /\ last_call.op = "register" /\ last_call.ret /\ last_call.was = "offline"
    /\ devices[last_call.dev].status = "active"
    /\ devices[last_call.dev].ip_address = "10.0.0.6"
    /\ last_call.dev \in active_devices

\* C6 as claimed: the counts broadcast_message returns add up to the number
\* of devices in its snapshot.
C6_CountsSumToSnapshot ==
    bc.pc = "done" => bc.sent + bc.failed = bc.size

\* C6: every device of the snapshot is dealt with exactly once whatever
\* happened to the earlier ones: it gets one delivery, counted as sent or
\* failed, unless it is no longer registered when its turn comes, in which
\* case it is passed over and counted in neither; so the returned counts add
\* up to the size of the snapshot less the devices unregistered meanwhile.
C6_CountsSumToDelivered ==
    /\ [](bc.sent + bc.failed + bc.skipped + Cardinality(bc.todo)
            + (IF bc.pc = "deliver" THEN 1 ELSE 0) = bc.size)
    /\ [](bc.pc = "done" => bc.todo = {})
    /\ [][bc'.skipped > bc.skipped =>
            \E d \in bc.todo : ~Known(d) /\ bc'.todo = bc.todo \ {d}]_vars

\* C6 witness: a broadcast over three active devices has returned (2, 1).
C6_Witness ==
    bc.pc = "done" /\ bc.size = 3 /\ bc.sent = 2 /\ bc.failed = 1

\* C11: unregister_device on a registered device removes its record and
\* its membership of the active set and returns True; on an absent id it
\* returns False and changes neither; while a device has no record its
\* status reads "unknown", it is not listed as active, and a heartbeat for
\* it returns False and creates nothing; only register_device brings a
\* record back.
C11_UnregisterRemoves ==
    /\ [](\A d \in Devices : ~Known(d) =>
             get_device_status(d) = "unknown" /\ d \notin get_active_devices)
    /\ [][\A d \in Devices :
            /\ unregister_device(d) =>
                 /\ last_call'.ret = Known(d)
                 /\ ~Known(d)'
                 /\ d \notin active_devices'
                 /\ \A e \in Devices \ {d} :
                       devices'[e] = devices[e] /\ (e \in active_devices' <=> e \in active_devices)
                 /\ ~Known(d) => (devices' = devices /\ active_devices' = active_devices)
            /\ ((\E ok \in BOOLEAN : update_device_heartbeat(d, ok)) /\ ~Known(d))
                 => /\ ~last_call'.ret
                    /\ devices' = devices /\ active_devices' = active_devices
            /\ (~Known(d) /\ Known(d)')
                 => \E a \in Addresses : register_device(d, a) \/ api_register_device(d, a)]_vars

\* C11 witness: a heartbeat has just returned False for a device that was
\* registered and then unregistered; the device is still unknown and the
\* other one is still active.
C11_Witness ==
    /\ last_call = [op |-> "heartbeat", dev |-> "cam1", ret |-> FALSE, was |-> "unknown"]
    /\ get_device_status("cam1") = "unknown"
    /\ "cam1" \notin get_active_devices
    /\ db_status["cam1"] # "none"
    /\ "cam2" \in get_active_devices

\* C12: a step of the monitor neither adds nor removes a record and never
\* changes an address or a last_heartbeat; the only change it makes to the
\* registry is to turn Active records whose last_heartbeat lies more than
\* the timeout before now into Offline ones and take them out of the active
\* set.
C12_SweepFrame ==
    [][Sweep =>
         \A d \in Devices :
            /\ Known(d)' <=> Known(d)
            /\ devices'[d].ip_address = devices[d].ip_address
            /\ devices'[d].last_heartbeat = devices[d].last_heartbeat
            /\ (devices'[d] # devices[d] \/ (d \in active_devices' <=> d \notin active_devices))
                 => /\ devices[d].status = "active" /\ d \in active_devices
                    /\ now - devices[d].last_heartbeat > heartbeat_timeout
                    /\ devices'[d].status = "offline" /\ d \notin active_devices']_vars

\* C12 witness: the monitor has demoted one device, whose address and
\* last_heartbeat are those of its registration, next to an active one.
C12_Witness ==
    /\ sweep.pc = "persist" /\ sweep.to_mark = {"cam1"}
    /\ devices["cam1"] = [ip_address |-> "10.0.0.6", status |-> "offline", last_heartbeat |-> 1]
    /\ devices["cam2"].status = "active"

\* C13: configure_device / restart_device return False for an unknown id
\* without making a request, and return False when the request raises,
\* times out or is answered with a status other than 200; from the call to
\* its return the device map and the active set do not change.
C13_CommandFailureLeavesRegistry ==
    [][/\ \A d \in Devices :
            ((configure_device(d) \/ restart_device(d)) /\ ~Known(d))
               => /\ last_call'.ret = FALSE /\ last_call'.dev = d
                  /\ cmd' = NoCmd /\ lock' = "free"
                  /\ devices' = devices /\ active_devices' = active_devices
       /\ \A reply \in CommandReplies \ {"200"} :
            CommandEnd(reply)
               => /\ last_call'.ret = FALSE /\ last_call'.op = cmd.op /\ last_call'.dev = cmd.dev
                  /\ devices' = devices /\ active_devices' = active_devices
       /\ (cmd # NoCmd \/ cmd' # NoCmd)
            => (devices' = devices /\ active_devices' = active_devices)]_vars

\* C13 witness: a restart of a registered, active device has just failed
\* and the device is still registered and active.
C13_Witness ==
    /\ last_call = [op |-> "restart", dev |-> "cam2", ret |-> FALSE, was |-> "active"]
    /\ cmd = NoCmd /\ lock = "free"
    /\ "cam2" \in active_devices

(***************************************************************************)
(* Properties of the topic matcher (SpecMatch).                            *)
(***************************************************************************)
Matched == match.result = "True"

\* C14: whenever _topic_matches returns True, every '+' of the subscription
\* that stands before any '#' has a topic part at its own position, so that
\* it stands for exactly one part of the topic; and "devices/+/status"
\* matches "devices/42/status".
C14_PlusTakesOnePart ==
    /\ topic_matches(<<"devices", "+", "status">>, <<"devices", "42", "status">>)
    /\ Matched =>
         \A i \in 1..Len(match.subscription) :
            (match.subscription[i] = "+" /\ \A j \in 1..(i - 1) : match.subscription[j] # "#")
               => i <= Len(match.topic)

\* The subscriptions C15 speaks of: literal parts and then one final '#'.
LiteralsThenHash(sub) ==
    /\ sub[Len(sub)] = "#"
    /\ \A i \in 1..(Len(sub) - 1) : sub[i] \notin {"+", "#"}

\* C15: for a subscription of k literal parts followed by a final '#',
\* _topic_matches returns True exactly for the topics whose first k parts
\* equal those literals, however many parts follow (none included), so a
\* topic of fewer than k parts never matches; "devices/#" matches
\* "devices/42/status/extra" and "devices".
C15_FinalHashMatchesSuffix ==
    /\ topic_matches(<<"devices", "#">>, <<"devices", "42", "status", "extra">>)
    /\ topic_matches(<<"devices", "#">>, <<"devices">>)
    /\ (match.result # "none" /\ LiteralsThenHash(match.subscription)) =>
         LET k == Len(match.subscription) - 1 IN
         Matched <=> /\ Len(match.topic) >= k
                     /\ \A i \in 1..k : match.topic[i] = match.subscription[i]

\* C15 witness: "a/b/#" was found to match the topic "a/b", which has
\* nothing left for the '#'.
C15_Witness ==
    match = [subscription |-> <<"a", "b", "#">>, topic |-> <<"a", "b">>, result |-> "True"]

\* C16: for a subscription without '#', _topic_matches returns True if and
\* only if the topic has as many parts and every part of the subscription is
\* '+' or equals the topic's part at that position; "a/b" does not match
\* "a/b/c" and "devices/+/status" does not match "devices/42/other".
C16_NoHashNeedsEqualLength ==
    /\ ~topic_matches(<<"a", "b">>, <<"a", "b", "c">>)
    /\ ~topic_matches(<<"devices", "+", "status">>, <<"devices", "42", "other">>)
    /\ (match.result # "none" /\ "#" \notin Range(match.subscription)) =>
         (Matched <=> /\ Len(match.topic) = Len(match.subscription)
                      /\ \A i \in 1..Len(match.subscription) :
                            \/ match.subscription[i] = "+"
                            \/ match.subscription[i] = match.topic[i])

\* C16 witness: "a/+/b" was found to match "a/a/b", and not the shorter "a/a".
C16_Witness ==
    /\ match = [subscription |-> <<"a", "+", "b">>, topic |-> <<"a", "a", "b">>, result |-> "True"]
    /\ ~topic_matches(<<"a", "+", "b">>, <<"a", "a">>)

(***************************************************************************)
(* Properties of the MQTT client (SpecClient).                             *)
(***************************************************************************)
Invoked(effs) == SelectSeq(effs, LAMBDA ef : ef.kind = "invoke")
Acks(effs) == SelectSeq(effs, LAMBDA ef : ef.kind = "publish" /\ ef.topic = AckTopic)

\* C17: a message that comes in has at most one callback invoked for it;
\* when the table has no entry for exactly its topic, the callback invoked
\* is that of the first entry in table order whose topic matches, even if
\* later entries match too; and when no entry matches, nothing is invoked
\* and nothing is published.
C17_AtMostOneHandler ==
    /\ [](Len(Invoked(effects)) <= 1)
    /\ [][\A t \in InboundTopics \ {ControlTopic} :
            (OnMessage(t, "ping", TRUE) /\ Slots(t) = {}) =>
                   IF \E i \in 1..Len(message_callbacks) :
                         topic_matches(message_callbacks[i].topic, t)
                      THEN \E i \in 1..Len(message_callbacks) :
                              /\ topic_matches(message_callbacks[i].topic, t)
                              /\ \A j \in 1..(i - 1) :
                                    ~topic_matches(message_callbacks[j].topic, t)
                              /\ effects' = <<Effect("invoke", t, message_callbacks[i].callback,
                                                     FALSE)>>
                      ELSE effects' = <<>>]_vars

\* C17 witness: "devices/#" and "devices/+" are both in the table, in this
\* order and with different callbacks; a message on devices/broadcast had
\* the callback of the first invoked and no other.
C17_Witness ==
    /\ message_callbacks = << [topic |-> <<"devices", "#">>, callback |-> "h2"],
                              [topic |-> <<"devices", "+">>, callback |-> "h1"] >>
    /\ effects = <<Effect("invoke", <<"devices", "broadcast">>, "h2", FALSE)>>

\* C18: whatever the connection state in which the call is made, after
\* subscribe(topic, callback) the table holds exactly one entry for topic
\* and it carries callback, and after unsubscribe(topic) the table holds no
\* entry for topic.
C18_TableFollowsLastCall ==
    [][\A t \in ClientPatterns :
          /\ \A h \in Handlers :
                (\E ok \in BOOLEAN : subscribe(t, h, ok) /\ ok) =>
                   /\ Cardinality({i \in 1..Len(message_callbacks') :
                                      message_callbacks'[i].topic = t}) = 1
                   /\ \A i \in 1..Len(message_callbacks') :
                         message_callbacks'[i].topic = t => message_callbacks'[i].callback = h
          /\ (\E ok \in BOOLEAN : unsubscribe(t, ok) /\ ok) =>
                \A i \in 1..Len(message_callbacks') : message_callbacks'[i].topic # t]_vars

\* C19: a control message whose command is not restart, config or ping has
\* an acknowledgement published on the reply topic, while a message on a
\* topic that matches no entry of the table has none.
C19_UnknownCommandAcknowledged ==
    [][/\ (is_connected /\ OnMessage(ControlTopic, "reboot", TRUE))
            => Len(Acks(effects')) = 1
       /\ \A t \in InboundTopics \ {ControlTopic} :
            (OnMessage(t, "ping", TRUE) /\ MatchingSlots(t) = {}) => Acks(effects') = <<>>]_vars

\* C20: _on_connect with rc = 0, on the first connection and on every later
\* one, sets is_connected and then subscribes to devices/<id>/control and
\* publishes the retained "online" status; with any other rc it leaves
\* is_connected False and sends nothing; and is_connected is set by nothing
\* else.
C20_ConnackSubscribesAndAnnounces ==
    [][/\ OnConnect(0) =>
            /\ is_connected' /\ transport' = "open"
            /\ effects' = << [kind |-> "subscribe", topic |-> <<"devices", "dev1", "control">>,
                              arg |-> "qos1", retain |-> FALSE],
                             [kind |-> "publish", topic |-> <<"devices", "dev1", "status">>,
                              arg |-> "online", retain |-> TRUE] >>
       /\ \A rc \in ConnackCodes \ {0} :
            OnConnect(rc) => (~is_connected' /\ effects' = <<>>)
       /\ (~is_connected /\ is_connected') => OnConnect(0)]_vars

\* C20 witness: the second successful connection, made by the reconnection
\* loop after a drop, has subscribed to the control topic and announced
\* "online".
C20_Witness ==
    /\ sessions = 2
    /\ is_connected /\ transport = "open"
    /\ Len(effects) = 2
    /\ effects[1].kind = "subscribe" /\ effects[1].topic = ControlTopic
    /\ effects[2].kind = "publish" /\ effects[2].arg = "online" /\ effects[2].retain

(***************************************************************************)
(* Further properties of the pipeline and of the registry.                 *)
(***************************************************************************)
\* C23: the step that processes a Sensor item starts one report to the
\* backend if the item's metadata has report_to_backend set and none if it
\* has not, and no other step starts a sensor report.
C23_SensorReportedIffFlagged ==
    [][/\ \A t \in Threads :
            (thr[t].pc = "process" /\ thr[t].item.type = "sensor" /\ thr'[t].pc # "process")
               => outbox'.sensor =
                     outbox.sensor + (IF thr[t].item.arg = "report" THEN 1 ELSE 0)
       /\ outbox'.sensor # outbox.sensor
            => \E t \in Threads :
                  /\ thr[t].pc = "process" /\ thr'[t].pc # "process"
                  /\ thr[t].item.type = "sensor" /\ thr[t].item.arg = "report"]_vars

\* C23 witness: a reading without the flag and one with it were processed
\* and exactly one report was started.
C23_Witness ==
    /\ Len(taken) = 2
    /\ \A t \in Threads : thr[t].pc \in {"none", "loop", "take"}
    /\ outbox.sensor = 1
    /\ decisions = <<>> /\ outbox.attendance = 0
    /\ next_id = 3

Consuming == {t \in Threads : thr[t].pc \in {"take", "process", "att_update", "att_send"}}

\* C24: at no time are two consumer threads taking or processing items,
\* whatever the sequence of start_processing and stop_processing calls.
C24_SingleConsumer ==
    Cardinality(Consuming) <= 1

\* C25: from the snapshot to the return of broadcast_message, and so during
\* every delivery, the registry lock is not held by the broadcast, and
\* register_device, update_device_heartbeat and unregister_device can each
\* run, as can the monitor's scan when it is due.
C25_BroadcastHoldsNoLock ==
    bc.pc \in {"lookup", "deliver"} =>
        /\ lock = "free"
        /\ \A d \in RegistryDevices :
              /\ ENABLED register_device(d, "10.0.0.5")
              /\ ENABLED unregister_device(d)
              /\ ENABLED update_device_heartbeat(d, TRUE)
        /\ sweep.pc = "scan" => ENABLED SweepScan

\* C25 witness: while a delivery to one device was in flight the monitor
\* demoted the other device of the snapshot.
C25_Witness ==
    /\ bc.pc = "deliver" /\ bc.cur = "cam1" /\ bc.todo = {"cam2"}
    /\ devices["cam2"].status = "offline"
    /\ sweep.pc = "persist" /\ sweep.to_mark = {"cam2"}

\* C21: a disconnect() made while connected publishes the retained offline
\* status first, then stops the network loop, then disconnects the
\* transport; a disconnect() made while not connected publishes nothing.
C21_OfflineBeforeTeardown ==
    [][disconnect =>
         LET e == effects' IN
         /\ is_connected =>
               /\ Len(e) = 3
               /\ e[1] = Effect("publish", StatusTopic, "offline", TRUE)
               /\ e[2].kind = "loop_stop"
               /\ e[3].kind = "disconnect"
         /\ ~is_connected =>
               \A i \in 1..Len(e) : e[i].kind # "publish"]_vars

\* C21 witness: a disconnect() found the client connected and sent the
\* three requests.
C21_Witness ==
    /\ stopped
    /\ ~is_connected
    /\ Len(effects) = 3
    /\ effects[1].kind = "publish" /\ effects[1].arg = "offline" /\ effects[1].retain

RunningLoops == {l \in LoopIds : reconnect_loop[l].pc # "none"}

\* C27: a disconnection reported with a nonzero reason code leaves the client
\* not connected and starts one reconnection loop, at its beginning; a
\* disconnect() by the user, reported with reason code 0, leaves the client
\* not connected and starts no loop.
C27_LoopOnlyForUnexpected ==
    [][/\ \A rc \in DisconnectCodes :
             OnDisconnect(rc) =>
                /\ ~is_connected'
                /\ \E l \in LoopIds \ RunningLoops :
                      reconnect_loop' = [reconnect_loop EXCEPT ![l] = NewLoop]
       /\ disconnect =>
             /\ ~is_connected'
             /\ reconnect_loop' = reconnect_loop]_vars

\* C27 witness: the connection of the first session was lost and a loop
\* stands at its beginning, the user having asked for nothing.
C27_Witness ==
    /\ sessions = 1
    /\ ~is_connected
    /\ transport = "closed"
    /\ ~stopped
    /\ reconnect_loop[1] = NewLoop
    /\ reconnect_loop[2] = NoLoop

\* The wait before attempt k of a loop, in units of 1 / DelayScale seconds:
\* min(base * 1.5^(k-1), max).
BackoffWait(k) ==
    LET grown == reconnect_delay * (3 ^ (k - 1)) * (2 ^ (MaxAttempts - (k - 1)))
        cap == reconnect_max_delay * DelayScale
    IN  IF grown < cap THEN grown ELSE cap

\* C28: a loop that has failed k-1 times waits min(5 * 1.5^(k-1), 60) seconds
\* before its k-th attempt; within a loop the wait never shrinks, never
\* passes the maximum and changes only when an attempt fails; a loop that
\* starts waits the base delay.
C28_BackoffSchedule ==
    /\ [](\A l \in RunningLoops :
             /\ reconnect_loop[l].delay = BackoffWait(reconnect_loop[l].failed + 1)
             /\ reconnect_loop[l].delay <= reconnect_max_delay * DelayScale)
    /\ [][\A l \in LoopIds :
             /\ (l \in RunningLoops /\ reconnect_loop'[l].pc # "none") =>
                   /\ reconnect_loop'[l].delay >= reconnect_loop[l].delay
                   /\ reconnect_loop'[l].delay # reconnect_loop[l].delay =>
                         ReconnectAttempt(l, FALSE)
             /\ (l \notin RunningLoops /\ reconnect_loop'[l].pc # "none") =>
                   /\ reconnect_loop'[l].delay = reconnect_delay * DelayScale
                   /\ reconnect_loop'[l].failed = 0]_vars

\* C28 witness: one loop has failed three times and waits 16.875 s, the
\* other has failed seven times and waits the maximum, having waited
\* 56.953125 s before its seventh attempt.
C28_Witness ==
    /\ reconnect_loop[1].pc = "attempt"
    /\ reconnect_loop[1].failed = 3
    /\ 8 * reconnect_loop[1].delay = 135 * DelayScale
    /\ reconnect_loop[2].pc = "attempt"
    /\ reconnect_loop[2].failed = 7
    /\ reconnect_loop[2].delay = 60 * DelayScale

\* A client.reconnect() has just returned.
JustReconnected ==
    /\ Len(effects) = 1
    /\ effects[1].kind = "reconnect"
    /\ effects[1].arg = "ok"

C29_NoAttemptAfterDisconnect ==
    [][stopped => \A l \in LoopIds, ok \in BOOLEAN : ~ReconnectAttempt(l, ok)]_vars

\* C22: while the client is connected, no more than one heartbeat interval
\* passes without a heartbeat message, counted from the connack of the
\* connection or from the heartbeat before.
C22_HeartbeatEveryInterval ==
    is_connected => now - last_beat <= ping_interval

\* C30: from the return of a disconnect() by the user to the next connect()
\* that goes through, is_connected is false, every publish and subscribe
\* call is refused and sends nothing, the table of handlers stays as it is,
\* and no heartbeat or other message is published.
C30_DisconnectedAfterDisconnect ==
    /\ [](stopped => ~is_connected)
    /\ [][(stopped /\ stopped') =>
             /\ effects' # effects =>
                   \A i \in 1..Len(effects') : effects'[i].kind \notin {"publish", "subscribe"}
             /\ message_callbacks' = message_callbacks
             /\ last_beat' = last_beat
             /\ mq_call' # mq_call => ~mq_call'.ret]_vars

\* C30 witness: after a disconnect() a reconnection loop left over from a
\* lost connection has reopened the transport, a heartbeat thread is still
\* alive, and a publish call has been refused.
C30_Witness ==
    /\ stopped
    /\ transport = "connecting"
    /\ RunningLoops = {}
    /\ \E h \in HbIds : heartbeat_threads[h] # "none"
    /\ mq_call.op = "publish"
    /\ ~mq_call.ret
    /\ effects = <<>>

\* C31: a message whose topic is literally the pattern of an entry of the
\* table is given to that entry's handler and to no other, whatever wildcard
\* entries stand before it, the device's own control topic included.
C31_ExactEntryFirst ==
    [][\A t \in DispatchPatterns, c \in {"ping", "reboot"} :
          (OnMessage(t, c, TRUE) /\ Slots(t) # {}) =>
             \E i \in Slots(t) :
                effects' = <<Effect("invoke", t, message_callbacks[i].callback, FALSE)>>]_vars

\* Positions of a list of effects that publish on the acknowledgement topic.
AckAt(e) == {i \in 1..Len(e) : e[i].kind = "publish" /\ e[i].topic = AckTopic}

\* Positions of a list of effects of a given kind.
OfKind(e, kind) == {i \in 1..Len(e) : e[i].kind = kind}

\* C32: a control message with command restart, config or ping whose
\* acknowledgement the transport accepts has exactly one acknowledgement
\* published on devices/<id>/control/ack, and never more than one; for
\* restart it goes out before the restart thread is started, the connection
\* still open, and for config after the update has been applied; no other
\* step publishes an acknowledgement.
C32_OneAckPerCommand ==
    [][/\ \A c \in {"restart", "config", "ping"} :
             /\ OnMessage(ControlTopic, c, TRUE) =>
                   /\ Cardinality(AckAt(effects')) = 1
                   /\ c = "restart" =>
                         /\ \A i \in AckAt(effects'), j \in OfKind(effects', "thread") : i < j
                         /\ OfKind(effects', "thread") # {}
                         /\ restart_thread' = "sleep1"
                         /\ transport' = "open" /\ is_connected'
                   /\ c = "config" =>
                         /\ \A i \in AckAt(effects'), j \in OfKind(effects', "config_update") : j < i
                         /\ OfKind(effects', "config_update") # {}
             /\ OnMessage(ControlTopic, c, FALSE) => AckAt(effects') = {}
       /\ (effects' # effects /\ AckAt(effects') # {}) =>
             \E c \in {"restart", "config", "ping"} : OnMessage(ControlTopic, c, TRUE)
       /\ RestartDisconnect => (restart_thread = "sleep1" /\ AckAt(effects') = {})]_vars

\* C32 witness: a restart command has been acknowledged and its thread has
\* not yet disconnected.
C32_Witness ==
    /\ restart_thread = "sleep1"
    /\ is_connected
    /\ Len(effects) = 2
    /\ effects[1] = Effect("publish", AckTopic, "restart:received", FALSE)
    /\ effects[2].kind = "thread"

\* A pattern with '#' somewhere before its last part.
Malformed(sub_parts) == \E i \in 1..(Len(sub_parts) - 1) : sub_parts[i] = "#"

\* C33: the matcher answers True or False for every pattern and topic, and
\* for a pattern that has '#' in a position other than the last it answers
\* True only when pattern and topic are the same.
C33_MalformedMatchesOnlyItself ==
    match.result # "none" =>
        /\ match.result \in {"True", "False"}
        /\ (Malformed(match.subscription) /\ match.result = "True") =>
              match.subscription = match.topic

\* C34: a store call that fails leaves the change made in memory in place.
\* A heartbeat of a registered device whose store call fails returns True
\* with the device Active, in the active set and carrying the current time;
\* a failed store call of the monitor leaves the records and the active set
\* as the scan made them, and the monitor goes on with the devices still
\* noted and then to its sleep and the next scan.
C34_StoreFailureNotFatal ==
    /\ [][\A d \in RegistryDevices :
             /\ (update_device_heartbeat(d, FALSE) /\ Known(d)) =>
                   /\ last_call'.ret
                   /\ devices'[d].status = "active"
                   /\ devices'[d].last_heartbeat = now
                   /\ d \in active_devices'
                   /\ db_status' = db_status
             /\ SweepPersist(d, FALSE) =>
                   /\ devices' = devices
                   /\ active_devices' = active_devices
                   /\ db_status' = db_status
                   /\ sweep'.pc = "persist"
                   /\ sweep'.to_mark = sweep.to_mark \ {d}]_vars
    /\ [](sweep.pc = "persist" =>
             /\ \A d \in sweep.to_mark : ENABLED SweepPersist(d, TRUE)
             /\ sweep.to_mark = {} => ENABLED SweepSleep)
    /\ [](sweep.pc = "sleep" => ENABLED SweepSample)

\* C34 witness: the monitor demoted both devices, the store call for the
\* first failed, and the second is still to be persisted; the store has the
\* first as Active while it is Offline in memory.
C34_Witness ==
    /\ sweep.pc = "persist"
    /\ sweep.to_mark = {"cam2"}
    /\ devices["cam1"].status = "offline" /\ devices["cam2"].status = "offline"
    /\ db_status["cam1"] = "active" /\ db_status["cam2"] = "active"
    /\ active_devices = {}

\* C36: when the monitor has finished a round and no heartbeat call is under
\* way, the status the durable store holds for a device is the status the
\* registry holds for it in memory.
C36_StoreAgreesWithMemory ==
    sweep.pc = "sleep" =>
        \A d \in RegistryDevices :
            (Known(d) /\ db_status[d] # "none") => db_status[d] = devices[d].status

\* C37: while a configure or restart delivery is in flight the registry lock
\* is held by it: no register, unregister, heartbeat or status read of any
\* device and no scan of the monitor can run, no record and no entry of the
\* active set changes, and the target stays registered at its address until
\* the delivery has returned.
C37_DeliveryInsideLock ==
    /\ [](cmd # NoCmd =>
             /\ lock = cmd.op
             /\ Known(cmd.dev)
             /\ ~ENABLED SweepScan
             /\ \A d \in RegistryDevices :
                   /\ \A a \in Addresses : ~ENABLED register_device(d, a)
                   /\ ~ENABLED unregister_device(d)
                   /\ ~ENABLED update_device_heartbeat(d, TRUE)
                   /\ ~ENABLED GetDeviceStatus(d))
    /\ [][cmd # NoCmd => (devices' = devices /\ active_devices' = active_devices)]_vars

\* C37 witness: a configure delivery to a device is in flight while the
\* monitor stands before its scan with that device late.
C37_Witness ==
    /\ cmd # NoCmd /\ cmd.op = "configure"
    /\ sweep.pc = "scan"
    /\ devices[cmd.dev].status = "active"
    /\ sweep.current_time - devices[cmd.dev].last_heartbeat > heartbeat_timeout

(***************************************************************************)
(* C35: every item taken from the queue leads to at most one request to    *)
(* the backend (one face per image), the request being the last thing done *)
(* for the item; when the request is refused, times out or raises, the     *)
(* item is not put back on the queue, no further request is made for it,   *)
(* no item is taken twice, and the consumer is back at its loop test.      *)
(***************************************************************************)
Requests == outbox.face + outbox.attendance + outbox.sensor

C35_OneRequestNoRetry ==
    /\ [](/\ Requests <= Len(taken)
          /\ \A i, j \in 1..Len(taken) : taken[i] = taken[j] => i = j)
    /\ [][/\ Requests' <= Requests + 1
          /\ Requests' = Requests + 1
                => \E t \in Threads : /\ thr[t].item # NoItem
                                      /\ thr'[t] = [pc |-> "loop", item |-> NoItem]
          /\ \A t \in Threads : \A r \in Replies \ {"201"} :
                AttSend(t, r)
                   => /\ processing_queue' = processing_queue
                      /\ thr'[t] = [pc |-> "loop", item |-> NoItem]
                      /\ Requests' = Requests + 1
          /\ \A r \in Replies \ {"201"} :
                (send_attendance_request(r) \/ send_sensor_data(r))
                   => /\ processing_queue' = processing_queue
                      /\ Requests' = Requests
                      /\ thr' = thr]_vars

\* A report failed, and the consumer went on to two further items, one of
\* them an image whose face was sent.
C35_Witness ==
    /\ outbox.failed["u1"] # -1
    /\ outbox.attendance = 1
    /\ outbox.face = 1
    /\ Len(taken) = 3
    /\ taken[1] < taken[2] /\ taken[2] < taken[3]
    /\ \A t \in Threads : thr[t].item = NoItem

(***************************************************************************)
(* C38: when the attendance report is sent the subject's cooldown          *)
(* timestamp already is the item's timestamp, and a failed report leaves   *)
(* it in place; an Attendance item of the subject that follows a failed    *)
(* report within the cooldown window is discarded as a duplicate, with no  *)
(* request made for it.                                                    *)
(***************************************************************************)
C38_StampKeptAfterFailure ==
    /\ [](\A t \in Threads :
             thr[t].pc = "att_send"
                => last_attendance_time[thr[t].item.arg] = thr[t].item.ts)
    /\ [][/\ \A t \in Threads : \A r \in Replies \ {"201"} :
                AttSend(t, r) => last_attendance_time' = last_attendance_time
          /\ \A t \in Threads :
                LET item == thr[t].item IN
                (/\ thr[t].pc = "process"
                 /\ item.type = "attendance"
                 /\ item.arg \in Subjects
                 /\ outbox.failed[item.arg] # -1
                 /\ item.ts - outbox.failed[item.arg] < min_attendance_interval
                 /\ Process(t))
                   => /\ thr'[t] = [pc |-> "loop", item |-> NoItem]
                      /\ decisions' = Append(decisions,
                            [user |-> item.arg, ts |-> item.ts, forward |-> FALSE])
                      /\ outbox' = outbox]_vars

\* The only report of u1 failed, and a later item of u1 was discarded.
C38_Witness ==
    /\ outbox.attendance = 1
    /\ outbox.failed["u1"] # -1
    /\ Len(decisions) = 2
    /\ decisions[1].user = "u1" /\ decisions[1].forward
    /\ decisions[2].user = "u1" /\ ~decisions[2].forward
    /\ decisions[2].ts > decisions[1].ts

(***************************************************************************)
(* C39: while the consumer runs, every item in the queue is eventually     *)
(* taken and its processing finished; an item whose processing raises and  *)
(* an item of unknown kind leave the thread at its loop test and the queue *)
(* as it was.                                                              *)
(***************************************************************************)
Queued(i) == \E k \in 1..Len(processing_queue) : processing_queue[k].id = i

ConsumerRunning == is_processing /\ \E t \in Threads : thr[t].pc # "none"

Processed(i) ==
    /\ \E k \in 1..Len(taken) : taken[k] = i
    /\ \A t \in Threads : thr[t].item.id # i

Caught(item) ==
    \/ item.type = "other"
    \/ item.type = "image" /\ item.arg = "bad"

C39_EveryItemProcessed ==
    /\ \A i \in 1..MaxItems : (Queued(i) /\ ConsumerRunning) ~> Processed(i)
    /\ [][\A t \in Threads :
             (thr[t].pc = "process" /\ Caught(thr[t].item) /\ Process(t))
                => /\ thr'[t] = [pc |-> "loop", item |-> NoItem]
                   /\ processing_queue' = processing_queue
                   /\ is_processing' = is_processing]_vars

\* The first item was caught (it left no request and no decision), and the
\* thread has taken the attendance item that was queued behind it.
C39_Witness ==
    /\ Len(taken) = 2
    /\ Requests = 0 /\ decisions = <<>>
    /\ \E t \in Threads : /\ thr[t].pc = "process"
                          /\ thr[t].item.id = taken[2]
                          /\ thr[t].item.type = "attendance"
                          /\ taken[1] < taken[2]

(***************************************************************************)
(* C40: at most one heartbeat thread is inside `while self.is_connected`   *)
(* at any time, and two heartbeat rounds that set last_ping are at least   *)
(* ping_interval apart.                                                    *)
(***************************************************************************)
HeartbeatLoops == {h \in HbIds : heartbeat_threads[h] = "sleep"}

C40_SingleHeartbeatLoop ==
    /\ [](Cardinality(HeartbeatLoops) <= 1)
    /\ [][last_ping' # last_ping => last_ping' - last_ping >= ping_interval]_vars

====
